---- MODULE Spec2Model ----
(***************************************************************************)
(* The solution verifier of the vrp repository (crate `verifier`):         *)
(* Instance::check_sanity, then verify = check_basic_sanity, check_pdp,    *)
(* the fleet-size test and, route by route, check_route_time,              *)
(* check_route_load and calc_route_distance.                               *)
(*                                                                         *)
(* A Result<T, String> is a record with tag "Ok" or "Err"; an Err carries  *)
(* the fields its format! string interpolates, under the name `kind' of    *)
(* the message.  A Rust panic (index out of bounds, unwrap of None) is the *)
(* third tag "Panic".  Option<T> is the empty sequence (None) or a         *)
(* one-element sequence (Some); Option<(i32, i32)> is <<>> or <<p, d>>.    *)
(* A rug::Float is an integer number of 1/Scale units.                     *)
(***************************************************************************)
EXTENDS Integers, Sequences, FiniteSets, TLC

VARIABLES db, file, inst, sol, pc, route_id, total_distance, result, log

vars == <<db, file, inst, sol, pc, route_id, total_distance, result, log>>

(***************************************************************************)
(* Bounds of the model.                                                    *)
(***************************************************************************)
\* Stops of a drawn solution, over all its routes.
MaxStops == 3
\* Routes of a drawn solution.
MaxRoutes == 2
\* Units per 1 of a modelled rug::Float (the resolution of a square root).
Scale == 100

(***************************************************************************)
(* Results.                                                                *)
(***************************************************************************)
None == <<>>
Some(x) == <<x>>

Ok(v) == [tag |-> "Ok", val |-> v]
Err(m) == [tag |-> "Err", msg |-> m]
Panic(why) == [tag |-> "Panic", why |-> why]
NoResult == [tag |-> "None"]

Unit == "()"

(***************************************************************************)
(* The numeric engine.                                                     *)
(***************************************************************************)
\* fl(val): the Float of an i32.
fl(val) == val * Scale

\* Mutant: the smaller of the two.
FMin(a, b) == IF a >= b THEN b ELSE a

\* Float::max
FMax(a, b) == IF a >= b THEN a ELSE b

RECURSIVE SqrtBetween(_, _, _)
\* The largest r in lo..hi with r * r <= n (lo * lo <= n < (hi + 1)^2).
SqrtBetween(n, lo, hi) ==
    IF lo >= hi THEN lo
    ELSE LET mid == (lo + hi + 1) \div 2
         IN  IF mid * mid <= n THEN SqrtBetween(n, mid, hi)
             ELSE SqrtBetween(n, lo, mid - 1)

\* Float::sqrt of fl(n), rounded down to the model's resolution.
FSqrt(n) == SqrtBetween(n * Scale * Scale, 0, (n + 1) * Scale)

\* Point::dist
dist(a, b) ==
    LET xs == a.x - b.x
        ys == a.y - b.y
    IN  FSqrt(xs * xs + ys * ys)

(***************************************************************************)
(* Vec indexing: Rust indexes from 0; a Vec is a sequence.                 *)
(***************************************************************************)
\* v[i] for i < v.len()
At(v, i) == v[i + 1]

\* whether v[i] is inside the Vec (outside, the index expression panics)
InVec(v, i) == i >= 0 /\ i < Len(v)

SetAt(v, i, x) == [v EXCEPT ![i + 1] = x]

\* vec![x; n]
VecOf(x, n) == [i \in 1..n |-> x]

(***************************************************************************)
(* check_basic_sanity                                                      *)
(***************************************************************************)
RECURSIVE FirstNotVisited(_, _)
\* The closing loop of check_basic_sanity, from index pt on.
FirstNotVisited(point_route_id, pt) ==
    IF pt >= Len(point_route_id) THEN Ok(Unit)
    ELSE IF At(point_route_id, pt) = None
         THEN Err([kind |-> "not visited", node |-> pt])
         ELSE FirstNotVisited(point_route_id, pt + 1)

\* `if pt > point_route_id.len()': the range test of a stop.
NotDescribed(pt, len) == pt > len

RECURSIVE SanityScan(_, _, _, _)
\* The nested loops of check_basic_sanity, from stop r of route route_idx on
\* (both counted from 0).
SanityScan(routes, route_idx, r, point_route_id) ==
    IF route_idx >= Len(routes) THEN FirstNotVisited(point_route_id, 0)
    ELSE IF r >= Len(At(routes, route_idx))
         THEN SanityScan(routes, route_idx + 1, 0, point_route_id)
    ELSE LET pt == At(At(routes, route_idx), r)
         IN  IF pt = 0
             THEN Err([kind |-> "depot", route |-> route_idx + 1, position |-> r])
             ELSE IF NotDescribed(pt, Len(point_route_id))
             THEN Err([kind |-> "not described", node |-> pt,
                       route |-> route_idx + 1, position |-> r])
             ELSE IF ~InVec(point_route_id, pt)
             THEN Panic("index out of bounds")
             ELSE IF At(point_route_id, pt) = None
             THEN SanityScan(routes, route_idx, r + 1,
                             SetAt(point_route_id, pt, Some(route_idx + 1)))
             ELSE Err([kind |-> "twice", node |-> pt, route |-> route_idx + 1,
                       other_route |-> At(point_route_id, pt)[1]])

check_basic_sanity(i, s) ==
    SanityScan(s.routes, 0, 0, SetAt(VecOf(None, Len(i.pts)), 0, Some(0)))

(***************************************************************************)
(* check_pdp                                                               *)
(***************************************************************************)
RECURSIVE PdpFill(_, _, _, _)
\* The first loop of check_pdp: pr is point_route_id, ri is route_idx; the
\* result is the pair of the two vectors, or a panic of an index expression.
PdpFill(routes, route_idx, i, vecs) ==
    IF route_idx >= Len(routes) THEN Ok(vecs)
    ELSE IF i >= Len(At(routes, route_idx))
         THEN PdpFill(routes, route_idx + 1, 0, vecs)
    ELSE LET p == At(At(routes, route_idx), i)
         IN  IF ~InVec(vecs.point_route_id, p)
             THEN Panic("index out of bounds")
             ELSE PdpFill(routes, route_idx, i + 1,
                    [point_route_id |-> SetAt(vecs.point_route_id, p, route_idx + 1),
                     route_idx |-> SetAt(vecs.route_idx, p, i)])

\* Mutant: the two routes are compared the wrong way round.
SameRoutes(vecs, pickup, delivery) ==
    At(vecs.point_route_id, pickup) = At(vecs.point_route_id, delivery)

\* `if point_route_id[pickup] != point_route_id[delivery]'
DifferentRoutes(vecs, pickup, delivery) ==
    At(vecs.point_route_id, pickup) # At(vecs.point_route_id, delivery)

\* Mutant: a delivery at the position of its pickup is refused too.
DeliveryNotAfter(vecs, pickup, delivery) ==
    At(vecs.route_idx, pickup) >= At(vecs.route_idx, delivery)

\* `if route_idx[pickup] > route_idx[delivery]'
DeliveryFirst(vecs, pickup, delivery) ==
    At(vecs.route_idx, pickup) > At(vecs.route_idx, delivery)

\* The two tests of one point pt of the second loop of check_pdp.
PdpPoint(i, vecs, pt) ==
    IF At(i.pts, pt).pickup_delivery = None THEN Panic("unwrap on None")
    ELSE LET p == At(i.pts, pt).pickup_delivery[1]
             d == At(i.pts, pt).pickup_delivery[2]
             pickup == IF p # 0 THEN p ELSE pt
             delivery == IF p # 0 THEN pt ELSE d
         IN  IF ~InVec(vecs.point_route_id, pickup)
                \/ ~InVec(vecs.point_route_id, delivery)
             THEN Panic("index out of bounds")
             ELSE IF DifferentRoutes(vecs, pickup, delivery)
             THEN Err([kind |-> "not in the same routes",
                       pickup |-> pickup, delivery |-> delivery,
                       pickup_route |-> At(vecs.point_route_id, pickup),
                       delivery_route |-> At(vecs.point_route_id, delivery)])
             ELSE IF DeliveryFirst(vecs, pickup, delivery)
             THEN Err([kind |-> "delivery before pickup",
                       delivery |-> delivery, pickup |-> pickup,
                       delivery_position |-> At(vecs.route_idx, delivery),
                       pickup_position |-> At(vecs.route_idx, pickup)])
             ELSE Ok(Unit)

RECURSIVE PdpScan(_, _, _)
\* The second loop of check_pdp, from point pt on.
PdpScan(i, vecs, pt) ==
    IF pt >= Len(vecs.point_route_id) THEN Ok(Unit)
    ELSE LET res == PdpPoint(i, vecs, pt)
         IN  IF res.tag = "Ok" THEN PdpScan(i, vecs, pt + 1) ELSE res

check_pdp(i, s) ==
    LET filled == PdpFill(s.routes, 0, 0,
                    [point_route_id |-> VecOf(0, Len(i.pts)),
                     route_idx |-> VecOf(0, Len(i.pts))])
    IN  IF filled.tag = "Ok" THEN PdpScan(i, filled.val, 1) ELSE filled

(***************************************************************************)
(* check_route_time                                                        *)
(***************************************************************************)
\* Mutant: an arrival exactly at the due time is late too.
LateAtDue(time, due) == time >= fl(due)

\* `if time > to.due as f64': the lateness test of an arrival.
TooLate(time, due) == time > fl(due)

RECURSIVE TimeLegs(_, _, _, _, _)
\* The loop of check_route_time over the windows (route[tidx - 1], route[tidx]),
\* then the closing leg to the depot.
TimeLegs(i, route_no, route, tidx, time) ==
    LET depot == At(i.pts, 0)
    IN  IF tidx >= Len(route)
        THEN IF ~InVec(i.pts, At(route, Len(route) - 1))
             THEN Panic("index out of bounds")
             ELSE LET last == At(i.pts, At(route, Len(route) - 1))
                      back == time + dist(last, depot)
                  IN  IF TooLate(back, depot.due)
                      THEN Err([kind |-> "too late at depot", time |-> back,
                                route |-> route_no])
                      ELSE Ok(Unit)
        ELSE IF ~InVec(i.pts, At(route, tidx - 1)) \/ ~InVec(i.pts, At(route, tidx))
             THEN Panic("index out of bounds")
             ELSE LET from == At(i.pts, At(route, tidx - 1))
                      to == At(i.pts, At(route, tidx))
                      arrival == time + dist(from, to)
                  IN  IF TooLate(arrival, to.due)
                      THEN Err([kind |-> "too late", time |-> arrival, node |-> to.id,
                                route |-> route_no, position |-> tidx])
                      ELSE TimeLegs(i, route_no, route, tidx + 1,
                                    FMax(arrival, fl(to.start)) + fl(to.service))

check_route_time(i, route_no, route) ==
    IF ~InVec(route, 0) \/ ~InVec(i.pts, At(route, 0))
    THEN Panic("index out of bounds")
    ELSE LET depot == At(i.pts, 0)
             first == At(i.pts, At(route, 0))
             time == fl(depot.start + depot.service) + dist(depot, first)
         IN  IF TooLate(time, first.due)
             THEN Err([kind |-> "too late", time |-> time, node |-> first.id,
                       route |-> route_no, position |-> 0])
             ELSE TimeLegs(i, route_no, route, 1,
                           FMax(time, fl(first.start)) + fl(first.service))

(***************************************************************************)
(* check_route_load                                                        *)
(***************************************************************************)
\* Mutant: a full vehicle is overloaded.
FullOrOver(vehicle_load, max_capacity) == vehicle_load >= max_capacity

\* `if vehicle_load > inst.max_capacity'
Overloaded(vehicle_load, max_capacity) == vehicle_load > max_capacity

RECURSIVE LoadScan(_, _, _, _, _)
\* The loop of check_route_load from position p on, with the load so far.
LoadScan(i, route_no, route, p, vehicle_load) ==
    IF p >= Len(route) THEN Ok(Unit)
    ELSE IF ~InVec(i.pts, At(route, p)) THEN Panic("index out of bounds")
    ELSE LET pt == At(i.pts, At(route, p))
             load == vehicle_load + pt.demand
         IN  IF load < 0
             THEN Err([kind |-> "negative load", node |-> pt.id,
                       route |-> route_no, position |-> p])
             ELSE IF Overloaded(load, i.max_capacity)
             THEN Err([kind |-> "load greater than max", load |-> load,
                       max |-> i.max_capacity, node |-> pt.id,
                       route |-> route_no, position |-> p])
             ELSE LoadScan(i, route_no, route, p + 1, load)

check_route_load(i, route_no, route) == LoadScan(i, route_no, route, 0, 0)

(***************************************************************************)
(* calc_route_distance                                                     *)
(***************************************************************************)
RECURSIVE SumWindows(_, _, _)
\* The sum of from.dist(to) over the windows of the route from window k on; an
\* empty sum is `unwrap_or(fl(0))'.
SumWindows(i, route, k) ==
    IF k >= Len(route) THEN fl(0)
    ELSE dist(At(i.pts, At(route, k - 1)), At(i.pts, At(route, k)))
         + SumWindows(i, route, k + 1)

\* Mutant: the leg back to the depot is left out.
OneWayDistance(i, route) ==
    IF ~InVec(route, 0) \/ \E k \in 0..(Len(route) - 1) : ~InVec(i.pts, At(route, k))
    THEN Panic("index out of bounds")
    ELSE Ok(dist(At(i.pts, 0), At(i.pts, At(route, 0))) + SumWindows(i, route, 1))

calc_route_distance(i, route) ==
    IF ~InVec(route, 0) \/ \E k \in 0..(Len(route) - 1) : ~InVec(i.pts, At(route, k))
    THEN Panic("index out of bounds")
    ELSE LET depot == At(i.pts, 0)
             first == At(i.pts, At(route, 0))
             last == At(i.pts, At(route, Len(route) - 1))
         IN  Ok(dist(depot, first) + SumWindows(i, route, 1) + dist(last, depot))

(***************************************************************************)
(* verify: the fleet test.  `inst.vehicles as usize' sign-extends: a       *)
(* negative v becomes 2^64 + v.  A usize is kept as the pair (hi, lo)      *)
(* standing for hi * (2^64 - 2^31) + lo, with 0 <= lo < 2^31.              *)
(***************************************************************************)
\* i32::MAX
I32Max == 2147483647

\* `v as usize' for an i32 v
AsUsize(v) ==
    IF v >= 0 THEN [hi |-> 0, lo |-> v]
    ELSE [hi |-> 1, lo |-> (v + I32Max) + 1]

\* a > b for two usize values
UsizeGt(a, b) == a.hi > b.hi \/ (a.hi = b.hi /\ a.lo > b.lo)

\* `if sol.routes.len() > inst.vehicles as usize'
TooManyVehicles(i, s) == UsizeGt(AsUsize(Len(s.routes)), AsUsize(i.vehicles))

(***************************************************************************)
(* Instance::check_sanity                                                  *)
(***************************************************************************)
\* Mutant: the ids are counted from 1.
IdsFromOne(i) ==
    SelectSeq([k \in 1..Len(i.pts) |-> k - 1],
              LAMBDA k : AsUsize(At(i.pts, k).id) # AsUsize(k + 1))

\* point_ids_are_sequential: the indices whose point has another id.
WrongIds(i) ==
    SelectSeq([k \in 1..Len(i.pts) |-> k - 1],
              LAMBDA k : AsUsize(At(i.pts, k).id) # AsUsize(k))

point_ids_are_sequential(i) ==
    IF WrongIds(i) = <<>> THEN Ok(Unit)
    ELSE Err([kind |-> "incorrect ids", points |-> WrongIds(i)])

\* Mutant: the flag of the instance is read the wrong way round.
NegativeAndPdp(i, pt) == pt.demand < 0 /\ i.is_pdp

\* `if pt.demand < 0 && !self.is_pdp'
NegativeNotPdp(i, pt) == pt.demand < 0 /\ ~i.is_pdp

\* Mutant: the test fires on the PDP instances, not on the others.
PairAndPdp(i, pt) == i.is_pdp /\ pt.pickup_delivery # None

\* `if !self.is_pdp && pt.pickup_delivery.is_some()'
PairButNotPdp(i, pt) == ~i.is_pdp /\ pt.pickup_delivery # None

\* Mutant: the depot is the partner of any point.
NoMatchButTheDepot(other, pt) ==
    /\ other.id # 0
    /\ other.pickup_delivery # <<0, pt.id>>
    /\ other.pickup_delivery # <<pt.id, 0>>

\* `if (other.pickup_delivery != Some((0, pt.id)))
\*      && (other.pickup_delivery != Some((pt.id, 0)))'
PairsDoNotMatch(other, pt) ==
    /\ other.pickup_delivery # <<0, pt.id>>
    /\ other.pickup_delivery # <<pt.id, 0>>

\* The tests of check_demands on one point.
DemandsOfPoint(i, pt) ==
    IF pt.demand > i.max_capacity
    THEN Err([kind |-> "demand greater than capacity", point |-> pt.id])
    ELSE IF NegativeNotPdp(i, pt)
    THEN Err([kind |-> "negative demand and not pdp", point |-> pt.id])
    ELSE IF PairButNotPdp(i, pt)
    THEN Err([kind |-> "pickup and delivery but not pdp", point |-> pt.id])
    ELSE IF pt.pickup_delivery = None THEN Ok(Unit)
    ELSE LET p == pt.pickup_delivery[1]
             d == pt.pickup_delivery[2]
             other_idx == IF p # 0 THEN p ELSE d
         IN  IF p # 0 /\ d # 0
             THEN Err([kind |-> "nonzero both pickup and delivery",
                       point |-> pt.id, pickup |-> p, delivery |-> d])
             ELSE IF other_idx < 0 \/ other_idx >= Len(i.pts)
             THEN Err([kind |-> "pair is no legal point", point |-> pt.id,
                       other |-> other_idx])
             ELSE LET other == At(i.pts, other_idx)
                  IN  IF other.pickup_delivery = None
                      THEN Err([kind |-> "pair is not pdp", point |-> pt.id,
                                other |-> other_idx])
                      ELSE IF PairsDoNotMatch(other, pt)
                      THEN Err([kind |-> "pair does not match", point |-> pt.id,
                                other |-> other_idx])
                      ELSE IF pt.demand + other.demand # 0
                      THEN Err([kind |-> "demands do not sum to 0", point |-> pt.id,
                                demand |-> pt.demand, other |-> other,
                                others_demand |-> other.demand])
                      ELSE Ok(Unit)

RECURSIVE DemandsScan(_, _)
\* The loop of check_demands from index k on, then the two tests of the depot.
DemandsScan(i, k) ==
    IF k >= Len(i.pts)
    THEN IF i.is_pdp /\ At(i.pts, 0).pickup_delivery # <<0, 0>>
         THEN Err([kind |-> "depots pair is not (0, 0)"])
         ELSE IF At(i.pts, 0).demand # 0
         THEN Err([kind |-> "depots demand is non-zero",
                   demand |-> At(i.pts, 0).demand])
         ELSE Ok(Unit)
    ELSE LET res == DemandsOfPoint(i, At(i.pts, k))
         IN  IF res.tag = "Ok" THEN DemandsScan(i, k + 1) ELSE res

check_demands(i) == DemandsScan(i, 0)

\* The tests of check_time on one point.
TimeOfPoint(i, pt) ==
    LET depot == At(i.pts, 0)
        earliest_arrival == fl(depot.start) + dist(depot, pt)
        earliest_service_finish ==
            FMax(fl(pt.start), earliest_arrival) + fl(pt.service)
        earliest_return == earliest_service_finish + dist(pt, depot)
    IN  IF pt.start > pt.due
        THEN Err([kind |-> "due before start", point |-> pt.id,
                  due |-> pt.due, start |-> pt.start])
        ELSE IF earliest_arrival > fl(pt.due)
        THEN Err([kind |-> "earliest arrival after due", time |-> earliest_arrival,
                  point |-> pt.id, due |-> pt.due])
        ELSE IF earliest_return > fl(depot.due)
        THEN Err([kind |-> "earliest return after depot due",
                  time |-> earliest_return, point |-> pt.id, due |-> depot.due])
        ELSE Ok(Unit)

RECURSIVE TimeScan(_, _)
\* The loop of check_time from index k on.
TimeScan(i, k) ==
    IF k >= Len(i.pts) THEN Ok(Unit)
    ELSE LET res == TimeOfPoint(i, At(i.pts, k))
         IN  IF res.tag = "Ok" THEN TimeScan(i, k + 1) ELSE res

check_time(i) == TimeScan(i, 0)

check_sanity(i) ==
    IF Len(i.pts) < 2
    THEN Err([kind |-> "needs at least two points", clients |-> Len(i.pts)])
    ELSE IF point_ids_are_sequential(i).tag # "Ok" THEN point_ids_are_sequential(i)
    ELSE IF check_demands(i).tag # "Ok" THEN check_demands(i)
    ELSE check_time(i)

(***************************************************************************)
(* The instances and solutions the verifier is run on.                     *)
(***************************************************************************)
Pt(id, x, y, demand, start, due, service, pickup_delivery) ==
    [id |-> id, x |-> x, y |-> y, demand |-> demand, start |-> start,
     due |-> due, service |-> service, pickup_delivery |-> pickup_delivery]

Inst(name, vehicles, max_capacity, pts) ==
    [name |-> name, vehicles |-> vehicles, max_capacity |-> max_capacity,
     pts |-> pts, is_pdp |-> pts[1].pickup_delivery # None]

Sol(routes) == [instance_name |-> "", routes |-> routes]

\* setup() of the tests of verify.rs: six clients on a ring around the depot.
RingInst ==
    Inst("test", 3, 10,
         << Pt(0, 0, 0, 0, 0, 48, 0, None),
            Pt(1, 0, 1, 2, 0, 10, 10, None),
            Pt(2, 1, 1, 2, 0, 3600, 10, None),
            Pt(3, 1, 0, 2, 0, 3600, 10, None),
            Pt(4, 0, -1, 2, 0, 3600, 10, None),
            Pt(5, -1, -1, 2, 0, 3600, 10, None),
            Pt(6, -1, 0, 2, 0, 3600, 10, None) >>)

\* The instance of the test pdp() of verify.rs.
RingPdpInst ==
    Inst("test", 3, 10,
         << Pt(0, 0, 0, 0, 0, 48, 0, <<0, 0>>),
            Pt(1, 0, 1, 2, 0, 10, 10, <<0, 2>>),
            Pt(2, 1, 1, -2, 0, 3600, 10, <<1, 0>>),
            Pt(3, 1, 0, 2, 0, 3600, 10, <<0, 4>>),
            Pt(4, 0, -1, -2, 0, 3600, 10, <<3, 0>>),
            Pt(5, -1, -1, 2, 0, 3600, 10, <<0, 6>>),
            Pt(6, -1, 0, -2, 0, 3600, 10, <<5, 0>>) >>)

\* The solutions the tests of verify.rs run on the ring, and neighbours of them.
RingRoutes ==
    { << <<1, 2, 3>>, <<4, 5, 6>> >>,
      << <<1, 2, 0, 3>>, <<4, 5, 6>> >>,
      << <<1, 2, 3>>, <<4, 5, 60>> >>,
      << <<1, 2, 3>>, <<4, 5, 7>> >>,
      << <<1, 2, 3>>, <<4, 5, 3, 6>> >>,
      << <<1, 2, 3, 1>>, <<4, 5, 6>> >>,
      << <<1, 2, 3>>, <<4, 6>> >>,
      << <<1>>, <<2>>, <<3>>, <<4>>, <<5>>, <<6>> >>,
      << <<1, 2, 3, 4, 5, 6>> >>,
      << <<1, 2, 3, 6, 5, 4>> >>,
      << <<3, 2, 1>>, <<4, 5, 6>> >>,
      << <<1, 2, 3, 4>>, <<6, 5>> >>,
      << <<1, 2, 3, 4>>, <<5, 6>> >>,
      << <<1, 2>>, <<3, 4>>, <<5, 6>> >>,
      << <<1, 2>>, <<5, 6>>, <<3, 4>> >>,
      << <<1, 2>>, <<4, 3>>, <<5>>, <<6>> >>,
      << <<1, 2>>, <<3>>, <<4>>, <<6, 5>> >>,
      << <<3, 2, 6, 5, 4, 1>> >>,
      << <<1, 2, 3>>, <<>>, <<4, 5, 6>> >> }

\* A depot and two clients, with the fleet size v.
FleetInst(v) ==
    Inst("fleet", v, 10,
         << Pt(0, 0, 0, 0, 0, 100, 0, None),
            Pt(1, 0, 1, 2, 0, 100, 10, None),
            Pt(2, 1, 1, 2, 0, 100, 10, None) >>)

\* A depot and three clients: the depot's window, its service time and the
\* capacity vary, and so do the windows of clients 1 and 3.
SmallInst(name, cap, dstart, ddue, dservice, due1, start3, due3) ==
    Inst(name, 3, cap,
         << Pt(0, 0, 0, 0, dstart, ddue, dservice, None),
            Pt(1, 0, 1, 2, 0, due1, 10, None),
            Pt(2, 1, 1, 2, 0, 100, 10, None),
            Pt(3, 1, 0, 2, start3, due3, 10, None) >>)

\* A depot and one pickup/delivery pair, the pickup of demand d, then the
\* points q.
PdpInst(name, d, q) ==
    Inst(name, 2, 10,
         << Pt(0, 0, 0, 0, 0, 100, 0, <<0, 0>>),
            Pt(1, 0, 1, d, 0, 100, 10, <<0, 2>>),
            Pt(2, 1, 1, 0 - d, 0, 100, 10, <<1, 0>>) >> \o q)

Instances ==
    { FleetInst(v) : v \in {-1, 0, 1, 2} }
    \cup { SmallInst("exact", 10, 0, 100, 0, 1, 0, 100),
           SmallInst("tight", 4, 0, 25, 0, 100, 0, 100),
           SmallInst("service", 3, 0, 100, 5, 100, 0, 5),
           SmallInst("wait", 10, 3, 100, 0, 100, 50, 60) }
    \cup { PdpInst("pair", 2, <<>>),
           PdpInst("inverted", -2, <<>>),
           PdpInst("self", 2, << Pt(3, 1, 0, 0, 0, 100, 10, <<0, 3>>) >>),
           PdpInst("bare", 2, << Pt(3, 1, 0, 2, 0, 100, 10, None) >>) }
    \cup { Inst("ids", 1, 10, << Pt(0, 0, 0, 0, 0, 100, 0, None),
                                 Pt(2, 0, 1, 2, 0, 100, 10, None) >>),
           Inst("late", 1, 10, << Pt(0, 0, 0, 0, 0, 100, 0, None),
                                  Pt(1, 0, 1, 2, 0, 100, 99, None) >>) }

RECURSIVE Lists(_, _, _)
\* The lists of exactly j routes with at most `stops' stops in all, over ids.
Lists(j, stops, ids) ==
    IF j = 0 THEN { <<>> }
    ELSE UNION { { <<r>> \o rest : r \in [1..l -> ids],
                                   rest \in Lists(j - 1, stops - l, ids) }
                 : l \in 0..stops }

\* Every list of at most MaxRoutes routes with at most MaxStops stops over ids.
RoutesOver(ids) == UNION { Lists(j, MaxStops, ids) : j \in 0..MaxRoutes }

\* The lists of routes over the clients 1..n, for each number n of clients.
ClientRoutes == [n \in 1..3 |-> RoutesOver(1..n)]

\* The lists of routes over the ids of a depot and two clients, the first id
\* past them and the next.
AnyRoutes == RoutesOver(0..4)

\* The solutions an instance is verified against: the ring under those of
\* its tests, every other instance under every list of routes over its
\* clients, and one instance under every list of routes over AnyRoutes' ids.
RoutesOn(i) ==
    IF i \in {RingInst, RingPdpInst} THEN RingRoutes
    ELSE ClientRoutes[Len(i.pts) - 1]
         \cup (IF i = FleetInst(1) THEN AnyRoutes ELSE {})

(***************************************************************************)
(* The run of the verifier on one instance and one solution                *)
(* (check_sintef_file): the instance is read, which ends in check_sanity,  *)
(* and verified against the solution.                                      *)
(***************************************************************************)
Init ==
    /\ \E i \in Instances \cup {RingInst, RingPdpInst} :
          \E r \in RoutesOn(i) : inst = i /\ sol = Sol(r)
    /\ file = None
    /\ pc = "check_sanity"
    /\ db = None
    /\ route_id = 0
    /\ total_distance = fl(0)
    /\ result = NoResult
    /\ log = <<>>

\* What a check that returned res leaves behind: verify goes on to pc `next'
\* after Ok(()), and the `?' returns every other result.
Checked(name, res, next) ==
    /\ log' = Append(log, [check |-> name, route |-> route_id, res |-> res])
    /\ IF res.tag = "Ok"
       THEN pc' = next /\ result' = result
       ELSE pc' = "done" /\ result' = res

\* Instance::from_str, its last step: inst.check_sanity()?
CheckSanity ==
    /\ pc = "check_sanity"
    /\ Checked("check_sanity", check_sanity(inst), "basic_sanity")
    /\ UNCHANGED <<db, file, inst, sol, route_id, total_distance>>

\* verify: check_basic_sanity(&inst, &sol)?
CheckBasicSanity ==
    /\ pc = "basic_sanity"
    /\ Checked("basic_sanity", check_basic_sanity(inst, sol),
               IF inst.is_pdp THEN "pdp" ELSE "fleet")
    /\ UNCHANGED <<db, file, inst, sol, route_id, total_distance>>

\* verify: if inst.is_pdp { check_pdp(&inst, &sol)? }
CheckPdp ==
    /\ pc = "pdp"
    /\ Checked("pdp", check_pdp(inst, sol), "fleet")
    /\ UNCHANGED <<db, file, inst, sol, route_id, total_distance>>

\* verify: the fleet test, and the entry of the loop over the routes.
CheckFleet ==
    /\ pc = "fleet"
    /\ Checked("fleet",
               IF TooManyVehicles(inst, sol)
               THEN Err([kind |-> "more vehicles than allowed",
                         routes |-> Len(sol.routes), vehicles |-> inst.vehicles])
               ELSE Ok(Unit),
               "route")
    /\ UNCHANGED <<db, file, inst, sol, route_id, total_distance>>

\* verify: the head of `for (route_id, route) in sol.routes.iter().enumerate()',
\* and Ok(total_distance) after the last route.
NextRoute ==
    /\ pc = "route"
    /\ IF route_id < Len(sol.routes)
       THEN pc' = "time" /\ route_id' = route_id + 1 /\ result' = result
       ELSE pc' = "done" /\ route_id' = route_id /\ result' = Ok(total_distance)
    /\ UNCHANGED <<db, file, inst, sol, total_distance, log>>

\* Mutant: the load of a route is checked before its time.
CheckRouteLoadBeforeTime ==
    /\ pc = "time"
    /\ IF check_route_load(inst, route_id, sol.routes[route_id]).tag # "Ok"
       THEN Checked("load", check_route_load(inst, route_id, sol.routes[route_id]),
                    "load")
       ELSE Checked("time", check_route_time(inst, route_id, sol.routes[route_id]),
                    "load")
    /\ UNCHANGED <<db, file, inst, sol, route_id, total_distance>>

\* verify: check_route_time(&inst, route_id + 1, &route)?
CheckRouteTime ==
    /\ pc = "time"
    /\ Checked("time", check_route_time(inst, route_id, sol.routes[route_id]), "load")
    /\ UNCHANGED <<db, file, inst, sol, route_id, total_distance>>

\* verify: check_route_load(&inst, route_id + 1, &route)?
CheckRouteLoad ==
    /\ pc = "load"
    /\ Checked("load", check_route_load(inst, route_id, sol.routes[route_id]),
               "distance")
    /\ UNCHANGED <<db, file, inst, sol, route_id, total_distance>>

\* verify: total_distance += calc_route_distance(inst, &route)
AddRouteDistance ==
    /\ pc = "distance"
    /\ LET d == calc_route_distance(inst, sol.routes[route_id])
       IN  IF d.tag = "Ok"
           THEN pc' = "route" /\ total_distance' = total_distance + d.val
                /\ result' = result
           ELSE pc' = "done" /\ total_distance' = total_distance /\ result' = d
    /\ UNCHANGED <<db, file, inst, sol, route_id, log>>

Next ==
    \/ CheckSanity
    \/ CheckBasicSanity
    \/ CheckPdp
    \/ CheckFleet
    \/ NextRoute
    \/ CheckRouteTime
    \/ CheckRouteLoad
    \/ AddRouteDistance

Spec == Init /\ [][Next]_vars

(***************************************************************************)
(* Text.  A &str is the sequence of its characters, each a one-character   *)
(* string.                                                                 *)
(***************************************************************************)
\* char::is_whitespace, on the characters of the modelled texts
is_whitespace(c) == c \in {" ", "\t", "\n", "\r"}

RECURSIVE SplitFrom(_, _, _, _)
\* str::split_whitespace from character k (from 1) on: word is the token being
\* read, words the tokens read so far.
SplitFrom(s, k, word, words) ==
    LET closed == IF word = <<>> THEN words ELSE Append(words, word)
    IN  IF k > Len(s) THEN closed
        ELSE IF is_whitespace(s[k]) THEN SplitFrom(s, k + 1, <<>>, closed)
        ELSE SplitFrom(s, k + 1, Append(word, s[k]), words)

split_whitespace(s) == SplitFrom(s, 1, <<>>, <<>>)

Digits == <<"0", "1", "2", "3", "4", "5", "6", "7", "8", "9">>

IsDigit(c) == \E d \in 1..10 : Digits[d] = c

DigitValue(c) == (CHOOSE d \in 1..10 : Digits[d] = c) - 1

\* i32::MIN
I32Min == (0 - I32Max) - 1

RECURSIVE ParseDigits(_, _, _, _)
\* The digit loop of str::parse::<i32>: checked_mul(10) and checked_add(d) for
\* a positive number, checked_sub(d) for a negative one.
ParseDigits(tok, k, positive, acc) ==
    IF k > Len(tok) THEN Ok(acc)
    ELSE IF ~IsDigit(tok[k]) THEN Err("InvalidDigit")
    ELSE LET d == DigitValue(tok[k])
         IN  IF positive
             THEN IF acc > (I32Max - d) \div 10 THEN Err("PosOverflow")
                  ELSE ParseDigits(tok, k + 1, positive, acc * 10 + d)
             ELSE IF acc < (I32Min + d + 9) \div 10 THEN Err("NegOverflow")
                  ELSE ParseDigits(tok, k + 1, positive, acc * 10 - d)

\* c.parse() for an i32: an optional sign, then at least one digit.
ParseI32(tok) ==
    IF tok = <<>> THEN Err("Empty")
    ELSE IF tok \in {<<"+">>, <<"-">>} THEN Err("InvalidDigit")
    ELSE IF tok[1] = "+" THEN ParseDigits(tok, 2, TRUE, 0)
    ELSE IF tok[1] = "-" THEN ParseDigits(tok, 2, FALSE, 0)
    ELSE ParseDigits(tok, 1, TRUE, 0)

RECURSIVE WithoutZeros(_)
\* A text of digits without its leading zeros (one digit is always left).
WithoutZeros(t) == IF Len(t) > 1 /\ t[1] = "0" THEN WithoutZeros(Tail(t)) ELSE t

\* usize::MAX of a 64-bit build, in digits.
UsizeMax == <<"1", "8", "4", "4", "6", "7", "4", "4", "0", "7",
              "3", "7", "0", "9", "5", "5", "1", "6", "1", "5">>

RECURSIVE DigitsGreater(_, _, _)
\* Of two texts of as many digits, the first spells the greater number (they
\* are compared from place k on).
DigitsGreater(a, b, k) ==
    IF k > Len(a) THEN FALSE
    ELSE IF a[k] # b[k] THEN DigitValue(a[k]) > DigitValue(b[k])
    ELSE DigitsGreater(a, b, k + 1)

\* The digits spell a number above usize::MAX.
BeyondUsize(digits) ==
    LET t == WithoutZeros(digits)
    IN  \/ Len(t) > Len(UsizeMax)
        \/ Len(t) = Len(UsizeMax) /\ DigitsGreater(t, UsizeMax, 1)

\* c.parse() for a usize: an optional `+', then at least one digit; digits
\* above usize::MAX overflow (the other texts of the model spell numbers
\* below 2^31, which the digit loop of the i32 reads the same way).
ParseUsize(tok) ==
    IF tok = <<>> THEN Err("Empty")
    ELSE IF tok \in {<<"+">>, <<"-">>} THEN Err("InvalidDigit")
    ELSE LET from == IF tok[1] = "+" THEN 2 ELSE 1
             digits == SubSeq(tok, from, Len(tok))
         IN  IF (\A k \in 1..Len(digits) : IsDigit(digits[k])) /\ BeyondUsize(digits)
             THEN Err("PosOverflow")
             ELSE ParseDigits(tok, from, TRUE, 0)

RECURSIVE DecimalOfNegative(_)
\* The digits of n <= 0.
DecimalOfNegative(n) ==
    LET q == (n + 9) \div 10
        d == 10 * q - n
    IN  IF q = 0 THEN <<Digits[d + 1]>>
        ELSE DecimalOfNegative(q) \o <<Digits[d + 1]>>

\* `{}' of an i32
Decimal(n) ==
    IF n < 0 THEN <<"-">> \o DecimalOfNegative(n)
    ELSE DecimalOfNegative(IF n = 0 THEN 0 ELSE 0 - n)

(***************************************************************************)
(* Point::from_str (the same text in the crates verifier and reader).      *)
(***************************************************************************)
RECURSIVE ParseFields(_, _, _, _)
\* The loop over the tokens of the line s: field i (from 0) is parsed and
\* pushed on vs, and the first token that is no i32 returns the error.
ParseFields(s, tokens, i, vs) ==
    IF i >= Len(tokens) THEN Ok(vs)
    ELSE LET c == At(tokens, i)
         IN  IF ParseI32(c).tag = "Ok"
             THEN ParseFields(s, tokens, i + 1, Append(vs, ParseI32(c).val))
             ELSE Err([kind |-> "can't parse line", line |-> s, field |-> i,
                       token |-> c])

\* Mutant: the test of the number of tokens comes before the tokens are parsed.
CountBeforeFields(s, tokens, i, vs) ==
    IF Len(tokens) # 7 /\ Len(tokens) # 9 THEN Ok(tokens)
    ELSE ParseFields(s, tokens, i, vs)

\* The tokens of the line s as i32 values, or the error of the first that is
\* none.
FieldsOf(s, tokens, i, vs) == ParseFields(s, tokens, i, vs)

\* Mutant: a line of eight or more numbers is taken for a point.
FewerThanSeven(nums) == nums < 7

\* `if nums != 7 && nums != 9'
WrongCount(nums) == nums # 7 /\ nums # 9

Point_from_str(s) ==
    LET parsed == FieldsOf(s, split_whitespace(s), 0, <<>>)
        vs == parsed.val
    IN  IF parsed.tag # "Ok" THEN parsed
        ELSE IF WrongCount(Len(vs))
        THEN Err([kind |-> "expected 7 or 9 integers", line |-> s,
                  nums |-> Len(vs)])
        ELSE IF ~InVec(vs, 6) \/ (Len(vs) > 7 /\ ~InVec(vs, 8))
        THEN Panic("index out of bounds")
        ELSE Ok(Pt(At(vs, 0), At(vs, 1), At(vs, 2), At(vs, 3), At(vs, 4),
                   At(vs, 5), At(vs, 6),
                   IF Len(vs) > 7 THEN <<At(vs, 7), At(vs, 8)>> ELSE None))

(***************************************************************************)
(* The lines Point::from_str is run on.                                    *)
(***************************************************************************)
\* Tokens of a drawn line.
MaxTokens == 10

RECURSIVE Join(_, _)
\* The tokens with sep between them.
Join(tokens, sep) ==
    IF tokens = <<>> THEN <<>>
    ELSE IF Len(tokens) = 1 THEN tokens[1]
    ELSE tokens[1] \o sep \o Join(Tail(tokens), sep)

\* The ways the tests lay a line out: one space or one tab between the
\* tokens, or runs of blanks around and between them.
Layout(tokens, style) ==
    CASE style = "space" -> Join(tokens, <<" ">>)
      [] style = "tab" -> Join(tokens, <<"\t">>)
      [] style = "wide" -> <<" ">> \o Join(tokens, <<" ", "\t", " ">>) \o <<" ", " ">>

Layouts == {"space", "tab", "wide"}

\* A token that is no integer.
NoNumber == <<"x">>

\* The lines of 0..MaxTokens tokens, token k being the number k - 1 (as in
\* the tests) or no number.
CountedLines ==
    UNION { { Layout([k \in 1..n |-> IF good[k] THEN Decimal(k - 1) ELSE NoNumber],
                     style)
              : good \in [1..n -> BOOLEAN], style \in Layouts }
            : n \in 0..MaxTokens }

\* Lines with signs, with the ends of the range of an i32 and just past them,
\* and with tokens that only begin like a number.
SignedLines ==
    LET line(seventh, rest) ==
            Layout(<<Decimal(0), <<"+", "1">>, Decimal(-2), <<"0", "0", "3">>,
                     Decimal(4), Decimal(5), seventh>> \o rest, "space")
        past == <<"2", "1", "4", "7", "4", "8", "3", "6", "4", "8">>
    IN  { line(t, r) :
            t \in { Decimal(I32Max), Decimal(I32Min), past, <<"-">> \o past,
                    <<"-">>, <<"+">>, <<"6", "x">>, <<"6", ".", "5">>, Decimal(6) },
            r \in { <<>>, <<Decimal(7)>>, <<Decimal(7), Decimal(-8)>>,
                    <<past, Decimal(8), Decimal(9)>> } }

PointLines == CountedLines \cup SignedLines

NotRead == <<>>

\* A run of Point::from_str on one line.
PointInit ==
    /\ file \in PointLines
    /\ inst = NotRead
    /\ sol = NotRead
    /\ pc = "Point::from_str"
    /\ db = NotRead
    /\ route_id = 0
    /\ total_distance = fl(0)
    /\ result = NoResult
    /\ log = <<>>

PointFromStr ==
    /\ pc = "Point::from_str"
    /\ result' = Point_from_str(file)
    /\ pc' = "done"
    /\ UNCHANGED <<db, file, inst, sol, route_id, total_distance, log>>

PointNext == PointFromStr

PointSpec == PointInit /\ [][PointNext]_vars

(***************************************************************************)
(* The instances check_sanity is run on, as the tests build them: without  *)
(* a file.                                                                 *)
(***************************************************************************)
\* Clients of a drawn instance of the families of ids and demands.
MaxClients == 2

\* A depot and 0..MaxClients clients, client k at distance k with an open
\* window: the ids are right, one too high or negative, the demands negative,
\* zero, positive or above the capacity 10.
IdDemandInstances ==
    LET depots == { Pt(id, 0, 0, demand, 0, 100, 0, None) :
                        id \in {0, 1}, demand \in {-1, 0, 1} }
        client(k, id, demand) ==
            Pt(CASE id = "right" -> k [] id = "next" -> k + 1 [] id = "negative" -> -1,
               0, k, demand, 0, 100, 0, None)
        clients(n) ==
            { [k \in 1..n |-> client(k, c[k][1], c[k][2])] :
                c \in [1..n -> {"right", "next", "negative"} \X {-2, 0, 2, 11}] }
    IN  UNION { { Inst("ids and demands", 1, 10, <<d>> \o cs) :
                    d \in depots, cs \in clients(n) } : n \in 0..MaxClients }

\* The pairs a point of a drawn instance carries.
Pairs == { None, <<0, 0>>, <<0, 1>>, <<0, 2>>, <<1, 0>>, <<2, 0>>, <<1, 2>>,
           <<0, 3>>, <<-1, 0>> }

\* A depot and two clients with every choice of their pairs, the demands of
\* the clients opposite or not.
PairInstances ==
    { Inst("pairs", 1, 10,
           << Pt(0, 0, 0, 0, 0, 100, 0, p0),
              Pt(1, 0, 1, d[1], 0, 100, 0, p1),
              Pt(2, 0, 2, d[2], 0, 100, 0, p2) >>) :
        p0 \in {None, <<0, 0>>, <<0, 1>>, <<1, 0>>}, p1 \in Pairs, p2 \in Pairs,
        d \in { <<2, -2>>, <<-2, 2>>, <<2, 2>>, <<0, 0>>, <<2, -1>> } }

\* A depot and one client at distance 1, 5 or the square root of 2, with the
\* windows and service times that make the client unreachable, the return
\* late, or neither.
TimeInstances ==
    { Inst("times", 1, 10,
           << Pt(0, 0, 0, 0, d[1], d[2], d[3], None),
              Pt(1, xy[1], xy[2], 2, c[1], c[2], c[3], None) >>) :
        d \in {0, 3} \X {2, 11, 100} \X {0, 5, 99},
        xy \in { <<0, 1>>, <<3, 4>>, <<1, 1>> },
        c \in {0, 6, 50} \X {0, 4, 5, 6, 100} \X {0, 10, 95} }

Candidates == IdDemandInstances \cup PairInstances \cup TimeInstances

\* A run of check_sanity on an instance built without a file (as setup() of
\* the tests does).
SanityInit ==
    /\ inst \in Candidates
    /\ file = NotRead
    /\ sol = NotRead
    /\ pc = "check_sanity"
    /\ db = NotRead
    /\ route_id = 0
    /\ total_distance = fl(0)
    /\ result = NoResult
    /\ log = <<>>

SanityNext == CheckSanity

SanitySpec == SanityInit /\ [][SanityNext]_vars

(***************************************************************************)
(* Instance::from_str of the crates verifier and reader.  An instance file *)
(* is the record of its line of vehicles and capacity and of its rows.     *)
(* The grammar gh_ll_instance.pest: the file is refused unless the first   *)
(* line holds the two numbers of dialect A or the three of dialect B and   *)
(* at least one row follows, each row of 7 or 9 integers; it yields the    *)
(* pair of the line of vehicles and capacity and then one pair per row.    *)
(***************************************************************************)
\* The tokens of a line are all integers.
AllIntegers(tokens) == \A k \in 1..Len(tokens) : ParseI32(tokens[k]).tag = "Ok"

InstanceParser_parse(f) ==
    LET header == split_whitespace(f.header)
        row(tokens) == Len(tokens) \in {7, 9} /\ AllIntegers(tokens)
    IN  IF Len(header) \notin {2, 3} \/ ~AllIntegers(header) \/ f.rows = <<>>
           \/ \E k \in 1..Len(f.rows) : ~row(split_whitespace(f.rows[k]))
        THEN Err([kind |-> "Instance parsing problem"])
        ELSE Ok(<<[rule |-> "vehicles_capacity", text |-> f.header]>>
                \o [k \in 1..Len(f.rows) |-> [rule |-> "row", text |-> f.rows[k]]])

\* `c.parse().unwrap_or_default()'
NumberOrDefault(c) == IF ParseI32(c).tag = "Ok" THEN ParseI32(c).val ELSE 0

\* `.map(|c| c.parse().unwrap_or_default())' over the tokens of a line
NumbersOrDefault(line) ==
    LET tokens == split_whitespace(line)
    IN  [k \in 1..Len(tokens) |-> NumberOrDefault(tokens[k])]

RECURSIVE ReadPairs(_, _, _)
\* The loop of from_str over the pairs from pair k (from 1) on: acc holds
\* pts, v and name; a row that is no point makes `unwrap()' panic.
ReadPairs(pairs, k, acc) ==
    IF k > Len(pairs) THEN Ok(acc)
    ELSE LET r == pairs[k]
         IN  CASE r.rule = "vehicles_capacity" ->
                    ReadPairs(pairs, k + 1, [acc EXCEPT !.v = NumbersOrDefault(r.text)])
               [] r.rule = "row" ->
                    LET point == Point_from_str(r.text)
                    IN  IF point.tag # "Ok" THEN Panic("unwrap on Err")
                        ELSE ReadPairs(pairs, k + 1,
                               [acc EXCEPT !.pts = Append(@, point.val)])
               [] r.rule = "instance_name" ->
                    ReadPairs(pairs, k + 1, [acc EXCEPT !.name = r.text])
               [] OTHER -> Panic("unreachable")

\* from_str up to the struct: the pairs are read and Instance { .. } is built.
BuildInstance(f) ==
    LET parsed == InstanceParser_parse(f)
        read == ReadPairs(parsed.val, 1, [pts |-> <<>>, v |-> <<>>, name |-> ""])
    IN  IF parsed.tag # "Ok" THEN parsed
        ELSE IF read.tag # "Ok" THEN read
        ELSE IF ~InVec(read.val.v, 1) \/ ~InVec(read.val.pts, 0)
        THEN Panic("index out of bounds")
        ELSE Ok(Inst(read.val.name, At(read.val.v, 0), At(read.val.v, 1),
                     read.val.pts))

\* verifier: `inst.check_sanity()?; Ok(inst)'
Instance_from_str(f) ==
    LET built == BuildInstance(f)
    IN  IF built.tag # "Ok" THEN built
        ELSE IF check_sanity(built.val).tag # "Ok" THEN check_sanity(built.val)
        ELSE built

\* reader: `Ok(Instance { .. })'
reader_Instance_from_str(f) == BuildInstance(f)

(***************************************************************************)
(* The instance files the two parsers are run on.                          *)
(***************************************************************************)
\* The row of a point: 7 numbers between spaces, or 9 between tabs.
RowOf(pt) ==
    LET seven == <<Decimal(pt.id), Decimal(pt.x), Decimal(pt.y), Decimal(pt.demand),
                   Decimal(pt.start), Decimal(pt.due), Decimal(pt.service)>>
    IN  IF pt.pickup_delivery = None THEN Layout(seven, "wide")
        ELSE Layout(seven \o <<Decimal(pt.pickup_delivery[1]),
                               Decimal(pt.pickup_delivery[2])>>, "tab")

\* The file of an instance.
FileOf(i) ==
    [header |-> Layout(<<Decimal(i.vehicles), Decimal(i.max_capacity)>>
                           \o (IF i.is_pdp THEN <<Decimal(0)>> ELSE <<>>), "tab"),
     rows |-> [k \in 1..Len(i.pts) |-> RowOf(i.pts[k])]]

\* The files of the candidate instances of pairs, of the rings of the tests,
\* and two files the grammar refuses.
InstanceFiles ==
    { FileOf(i) : i \in PairInstances \cup {RingInst, RingPdpInst} }
    \cup { [header |-> Layout(<<Decimal(3)>>, "space"), rows |-> FileOf(RingInst).rows],
           [header |-> FileOf(RingInst).header, rows |-> <<>>] }

\* A run of Instance::from_str of one of the two crates on one file.
InstanceInit ==
    /\ file \in InstanceFiles
    /\ inst = NotRead
    /\ sol = NotRead
    /\ pc \in {"verifier::Instance::from_str", "reader::Instance::from_str"}
    /\ db = NotRead
    /\ route_id = 0
    /\ total_distance = fl(0)
    /\ result = NoResult
    /\ log = <<>>

\* What from_str leaves behind.
Read(res) ==
    /\ log' = Append(log, [check |-> pc, route |-> 0, res |-> res])
    /\ result' = res
    /\ inst' = IF res.tag = "Ok" THEN res.val ELSE inst
    /\ pc' = "done"
    /\ UNCHANGED <<db, file, sol, route_id, total_distance>>

VerifierFromStr ==
    /\ pc = "verifier::Instance::from_str"
    /\ Read(Instance_from_str(file))

ReaderFromStr ==
    /\ pc = "reader::Instance::from_str"
    /\ Read(reader_Instance_from_str(file))

InstanceNext == VerifierFromStr \/ ReaderFromStr

InstanceSpec == InstanceInit /\ [][InstanceNext]_vars

(***************************************************************************)
(* Solution::from_str.  A solution file is the record of the text of its   *)
(* name field and of its route lines, each the label printed after `Route' *)
(* and the body after the colon.                                           *)
(* The grammar sintef_solution.pest: the name field is empty or holds the  *)
(* name of a benchmark instance, in any case and with blanks anywhere; the *)
(* body of a route is a list of numbers; the label is not looked at.  It   *)
(* yields the pair of the name, if there is one, and one pair per route    *)
(* line, in the order of the file, whose text is the body.                 *)
(***************************************************************************)
Upper == <<"A", "B", "C", "D", "E", "F", "G", "H", "I", "J", "K", "L", "M",
           "N", "O", "P", "Q", "R", "S", "T", "U", "V", "W", "X", "Y", "Z">>

Lower == <<"a", "b", "c", "d", "e", "f", "g", "h", "i", "j", "k", "l", "m",
           "n", "o", "p", "q", "r", "s", "t", "u", "v", "w", "x", "y", "z">>

\* Mutant: the text is left in the case it was written in.
as_written(s) == s

\* `.to_lowercase()', on the characters of the model
to_lowercase(s) ==
    [k \in 1..Len(s) |->
        IF \E j \in DOMAIN Upper : Upper[j] = s[k]
        THEN Lower[CHOOSE j \in DOMAIN Upper : Upper[j] = s[k]]
        ELSE s[k]]

\* Mutant: only the spaces are taken out.
retain_not_space(s) == SelectSeq(s, LAMBDA c : c # " ")

\* `s.retain(|c| !c.is_whitespace())'
retain_not_whitespace(s) == SelectSeq(s, LAMBDA c : ~is_whitespace(c))

\* The names of the benchmark instances, as good_instance_names spells them.
GoodNames ==
    { pdp \o t \o <<"_">> \o s \o <<"_">> \o i :
        pdp \in { <<>>, <<"l">> },
        t \in { <<"c", "1">>, <<"c", "2">>, <<"r", "1">>, <<"r", "2">>,
                <<"r", "c", "1">>, <<"r", "c", "2">> },
        s \in { <<"2">>, <<"4">>, <<"6">>, <<"8">>, <<"1", "0">> },
        i \in { <<"1">>, <<"2">>, <<"3">>, <<"4">>, <<"5">>, <<"6">>, <<"7">>,
                <<"8">>, <<"9">>, <<"1", "0">> } }

\* A text from its first character that is no blank to its last.
Trim(s) ==
    LET inked == { k \in 1..Len(s) : ~is_whitespace(s[k]) }
    IN  IF inked = {} THEN <<>>
        ELSE SubSeq(s, CHOOSE a \in inked : \A b \in inked : a <= b,
                       CHOOSE a \in inked : \A b \in inked : a >= b)

SolutionParser_parse(f) ==
    LET name == Trim(f.name)
        letters == SelectSeq(name, LAMBDA c : ~is_whitespace(c))
        small == [k \in 1..Len(letters) |->
                     IF \E j \in DOMAIN Upper : Upper[j] = letters[k]
                     THEN Lower[CHOOSE j \in DOMAIN Upper : Upper[j] = letters[k]]
                     ELSE letters[k]]
        numbers(body) == \A k \in 1..Len(body) : IsDigit(body[k]) \/ is_whitespace(body[k])
    IN  IF (name # <<>> /\ small \notin GoodNames)
           \/ \E k \in 1..Len(f.lines) : ~numbers(f.lines[k].body)
        THEN Err([kind |-> "Solution parsing problem"])
        ELSE Ok((IF name = <<>> THEN <<>>
                 ELSE <<[rule |-> "instance_name", text |-> name]>>)
                \o [k \in 1..Len(f.lines) |-> [rule |-> "route", text |-> f.lines[k].body]])

\* Mutant: the default is 1.
UsizeOrOne(c) == IF ParseUsize(c).tag = "Ok" THEN ParseUsize(c).val ELSE 1

\* `c.parse().unwrap_or_default()' for a usize
UsizeOrDefault(c) == IF ParseUsize(c).tag = "Ok" THEN ParseUsize(c).val ELSE 0

\* Mutant: the route is read from its second number on.
RouteAfterFirst(text) ==
    LET tokens == split_whitespace(text)
    IN  [k \in 1..(Len(tokens) - 1) |-> UsizeOrDefault(tokens[k + 1])]

\* The route of a pair: `.split_whitespace().map(..).collect()'
RouteOfText(text) ==
    LET tokens == split_whitespace(text)
    IN  [k \in 1..Len(tokens) |-> UsizeOrDefault(tokens[k])]

RECURSIVE ReadSolutionPairs(_, _, _)
\* The loop of from_str over the pairs from pair k (from 1) on.
ReadSolutionPairs(pairs, k, acc) ==
    IF k > Len(pairs) THEN Ok(acc)
    ELSE LET r == pairs[k]
         IN  CASE r.rule = "instance_name" ->
                    ReadSolutionPairs(pairs, k + 1,
                        [acc EXCEPT !.instance_name =
                            retain_not_whitespace(to_lowercase(r.text))])
               [] r.rule = "route" ->
                    ReadSolutionPairs(pairs, k + 1,
                        [acc EXCEPT !.routes = Append(@, RouteOfText(r.text))])
               [] OTHER -> Panic("unreachable")

Solution_from_str(f) ==
    LET parsed == SolutionParser_parse(f)
    IN  IF parsed.tag # "Ok" THEN parsed
        ELSE ReadSolutionPairs(parsed.val, 1, [instance_name |-> <<>>, routes |-> <<>>])

(***************************************************************************)
(* The solution files, and the run of check_sintef_file from the file of   *)
(* the solution on.                                                        *)
(***************************************************************************)
\* The label of the k-th of n route lines: their numbers from 0, one number
\* on every line, numbers that fall, or none.
LabelOf(labels, k, n) ==
    CASE labels = "from 0" -> Decimal(k - 1)
      [] labels = "repeated" -> Decimal(7)
      [] labels = "falling" -> Decimal(n - k)
      [] labels = "missing" -> <<>>

Labellings == {"from 0", "repeated", "falling", "missing"}

\* The file that names an instance and lists the routes under the labels.
SolutionFileOf(name, routes, labels, style) ==
    [name |-> name,
     lines |-> [k \in 1..Len(routes) |->
                  [label |-> LabelOf(labels, k, Len(routes)),
                   body |-> Layout([j \in 1..Len(routes[k]) |-> Decimal(routes[k][j])],
                                   style)]]]

\* The name fields: none, blanks, a name as it is spelt, in capitals, with
\* blanks inside (whitespace_in_instance_name), another name, and a name of
\* no benchmark instance.
NameFields ==
    { <<>>,
      <<" ", "\t">>,
      <<" ", "r", "c", "1", "_", "4", "_", "1", "0">>,
      <<"R", "C", "1", "_", "4", "_", "1", "0", " ">>,
      <<"r", "c", " ", "1", " ", "_", " ", "\t", " ", "4", "_", "1", "0">>,
      <<"R", "c", "\t", "1", "_", "4", " ", "_", "1", "0">>,
      <<"l", "R", "2", "_", "1", "0", "_", "3">>,
      <<"l", "r", " ", "2", "_", "1", "0", "_", "3">>,
      <<"m", "1", "_", "1", "_", "1", "0">> }

\* The instances the files of solutions are verified against.
SolvedInstances ==
    { FleetInst(1), FleetInst(2),
      SmallInst("exact", 10, 0, 100, 0, 1, 0, 100),
      SmallInst("tight", 4, 0, 25, 0, 100, 0, 100),
      SmallInst("service", 3, 0, 100, 5, 100, 0, 5),
      PdpInst("pair", 2, <<>>),
      PdpInst("inverted", -2, <<>>) }

\* The lists of routes read against an instance: those over its clients, one
\* that visits the depot and one that visits a point past the last.
SolutionRoutesOn(i) ==
    ClientRoutes[Len(i.pts) - 1]
    \cup { << <<1>>, <<2, 0>> >>, << <<1>>, <<2, Len(i.pts) + 1>> >> }

\* The files read against an instance: every such list of routes (under
\* every labelling when the instance has two clients, under falling labels
\* when it has more), one list under every name field and layout, and a file
\* the grammar refuses.
SolutionFilesOn(i) ==
    { SolutionFileOf(<<>>, r, labels, "space") :
        r \in SolutionRoutesOn(i),
        labels \in (IF Len(i.pts) = 3 THEN Labellings ELSE {"falling"}) }
    \cup { SolutionFileOf(name, << <<1, 2>> >>, "from 0", style) :
             name \in NameFields, style \in Layouts }
    \cup { [name |-> <<>>, lines |-> << [label |-> <<>>, body |-> <<"1", " ", "x">>] >>] }

SolutionInit ==
    /\ \E i \in SolvedInstances : inst = i /\ file \in SolutionFilesOn(i)
    /\ sol = NotRead
    /\ pc = "Solution::from_str"
    /\ db = NotRead
    /\ route_id = 0
    /\ total_distance = fl(0)
    /\ result = NoResult
    /\ log = <<>>

\* check_sintef_file: `let solution = read::<solution::Solution>(path)?'
SolutionFromStr ==
    /\ pc = "Solution::from_str"
    /\ LET res == Solution_from_str(file)
       IN  /\ sol' = IF res.tag = "Ok" THEN res.val ELSE sol
           /\ Checked("Solution::from_str", res, "check_sanity")
    /\ UNCHANGED <<db, file, inst, route_id, total_distance>>

SolutionNext == SolutionFromStr \/ Next

SolutionSpec == SolutionInit /\ [][SolutionNext]_vars

(***************************************************************************)
(* The solution files with a number that no usize holds.                   *)
(***************************************************************************)
\* Tokens of digits above usize::MAX: usize::MAX + 1, and usize::MAX with a
\* digit more.
PastUsize ==
    { <<"1", "8", "4", "4", "6", "7", "4", "4", "0", "7",
        "3", "7", "0", "9", "5", "5", "1", "6", "1", "6">>,
      UsizeMax \o <<"0">> }

\* The file of the routes in which every stop 0 is written as the token.
OverflowingFileOf(routes, token) ==
    [name |-> <<>>,
     lines |-> [k \in 1..Len(routes) |->
                  [label |-> Decimal(k),
                   body |-> Layout([j \in 1..Len(routes[k]) |->
                                       IF routes[k][j] = 0 THEN token
                                       ELSE Decimal(routes[k][j])],
                                   "space")]]]

\* The instances these files are verified against.
OverflowInstances ==
    { FleetInst(2), SmallInst("service", 3, 0, 100, 5, 100, 0, 5),
      PdpInst("pair", 2, <<>>) }

OverflowInit ==
    /\ \E i \in OverflowInstances :
          /\ inst = i
          /\ file \in { OverflowingFileOf(r, token) :
                         r \in RoutesOver(0..(Len(i.pts) - 1)), token \in PastUsize }
    /\ sol = NotRead
    /\ pc = "Solution::from_str"
    /\ db = NotRead
    /\ route_id = 0
    /\ total_distance = fl(0)
    /\ result = NoResult
    /\ log = <<>>

OverflowSpec == OverflowInit /\ [][SolutionNext]_vars

(***************************************************************************)
(* Point::dist on every i32.  An i32 operation that leaves the range       *)
(* panics in a build with overflow checks (debug) and wraps modulo 2^32 in *)
(* a build without (release).  The Float is kept as the number under the   *)
(* square root; Float::sqrt of a negative number is NaN.                   *)
(***************************************************************************)
\* a - b leaves the range of the i32.
SubOverflows(a, b) == (b > 0 /\ a < I32Min + b) \/ (b < 0 /\ a > I32Max + b)

\* a.wrapping_sub(b)
WrappingSub(a, b) ==
    IF ~SubOverflows(a, b) THEN a - b
    ELSE IF b < 0 THEN ((a - I32Max) - 1) - ((b + I32Max) + 1)
    ELSE ((a + I32Max) + 1) - ((b - I32Max) - 1)

\* The largest i32 whose square is an i32.
SqrtI32Max == 46340

\* a * a leaves the range of the i32.
SquareOverflows(a) == a > SqrtI32Max \/ a < 0 - SqrtI32Max

\* a.wrapping_mul(a): the low 32 bits of the square, from the halves of 16
\* bits of a and the halves of 8 bits of its low half.
WrappingSquare(a) ==
    LET l == a % 65536
        h == a \div 65536
        u == l \div 256
        v == l % 256
        low == 2 * u * v * 256 + v * v
        ll == low % 65536
        lh == u * u + low \div 65536
        hi == (2 * ((h * l) % 32768) + lh) % 65536
    IN  IF hi >= 32768 THEN (hi - 65536) * 65536 + ll ELSE hi * 65536 + ll

\* p + q leaves the range of the i32.
AddOverflows(p, q) == (q > 0 /\ p > I32Max - q) \/ (q < 0 /\ p < I32Min - q)

\* p.wrapping_add(q)
WrappingAdd(p, q) ==
    IF ~AddOverflows(p, q) THEN p + q
    ELSE IF q > 0 THEN ((p - I32Max) - 1) + ((q - I32Max) - 1)
    ELSE ((p + I32Max) + 1) + ((q + I32Max) + 1)

\* Some operation of `xs * xs + ys * ys' leaves the range.
DistOverflows(a, b) ==
    \/ SubOverflows(a.x, b.x)
    \/ SubOverflows(a.y, b.y)
    \/ SquareOverflows(a.x - b.x)
    \/ SquareOverflows(a.y - b.y)
    \/ AddOverflows((a.x - b.x) * (a.x - b.x), (a.y - b.y) * (a.y - b.y))

\* Point::dist in a build: the number whose root it returns, or the panic.
Point_dist(a, b, build) ==
    IF build = "debug" /\ DistOverflows(a, b)
    THEN Panic("arithmetic overflow")
    ELSE LET xs == WrappingSub(a.x, b.x)
             ys == WrappingSub(a.y, b.y)
         IN  Ok([sqrt_of |-> WrappingAdd(WrappingSquare(xs), WrappingSquare(ys))])

\* The builds.
Builds == {"debug", "release"}

\* Coordinates over the range of the i32: small ones, those around the
\* largest root, and the ends.
Abscissas ==
    { I32Min, -1073741824, -46341, -1, 0, 3, 46340, 46341, 65536, 1073741824, I32Max }

Ordinates == { -46341, 0, 4, 32768, I32Max }

\* A run of dist on two points.
DistInit ==
    /\ file \in { << Pt(0, ax, ay, 0, 0, 0, 0, None), Pt(1, bx, by, 0, 0, 0, 0, None) >> :
                     ax \in Abscissas, bx \in Abscissas, ay \in Ordinates, by \in {0, 1} }
    /\ inst = NotRead
    /\ sol = NotRead
    /\ pc = "Point::dist"
    /\ db = NotRead
    /\ route_id = 0
    /\ total_distance = fl(0)
    /\ result = NoResult
    /\ log = <<>>

PointDist ==
    /\ pc = "Point::dist"
    /\ \E build \in Builds :
          LET res == Point_dist(file[1], file[2], build)
          IN  /\ log' = Append(log, [check |-> build, route |-> 0, res |-> res])
              /\ result' = res
    /\ pc' = "done"
    /\ UNCHANGED <<db, file, inst, sol, route_id, total_distance>>

DistNext == PointDist

DistSpec == DistInit /\ [][DistNext]_vars

(***************************************************************************)
(* verify as one function, for its callers in the server.                  *)
(***************************************************************************)
RECURSIVE VerifyRoutes(_, _, _, _)
\* The loop of verify over the routes from route_idx (from 0) on.
VerifyRoutes(i, s, route_idx, total) ==
    IF route_idx >= Len(s.routes) THEN Ok(total)
    ELSE LET route == At(s.routes, route_idx)
             time == check_route_time(i, route_idx + 1, route)
             load == check_route_load(i, route_idx + 1, route)
             d == calc_route_distance(i, route)
         IN  IF time.tag # "Ok" THEN time
             ELSE IF load.tag # "Ok" THEN load
             ELSE IF d.tag # "Ok" THEN d
             ELSE VerifyRoutes(i, s, route_idx + 1, total + d.val)

verify(i, s) ==
    LET sanity == check_basic_sanity(i, s)
        pdp == IF i.is_pdp THEN check_pdp(i, s) ELSE Ok(Unit)
    IN  IF sanity.tag # "Ok" THEN sanity
        ELSE IF pdp.tag # "Ok" THEN pdp
        ELSE IF TooManyVehicles(i, s)
        THEN Err([kind |-> "more vehicles than allowed",
                  routes |-> Len(s.routes), vehicles |-> i.vehicles])
        ELSE VerifyRoutes(i, s, 0, fl(0))

(***************************************************************************)
(* The server (crate `verifier-server`).  Its Floats are kept in           *)
(* thousandths of the unit of the verifier's Floats, so that 0.001 is a    *)
(* whole number of them.  An Ordering is "Less", "Equal" or "Greater".     *)
(***************************************************************************)
\* A Float of the verifier, in the server.
InThousandths(f) == f * 1000

\* flf64 of n thousandths: flf64(0.001) is flf64(1), flf64(-0.001) is flf64(-1).
flf64(n) == n * Scale

\* Float::abs
FAbs(f) == IF f < 0 THEN 0 - f ELSE f

Verification(instance_name, routes, distance) ==
    [instance_name |-> instance_name, routes |-> routes, distance |-> distance]

Bks(routes, distance, date) == [routes |-> routes, distance |-> distance, date |-> date]

compare(verification, best) ==
    LET diff == best[1].distance - verification.distance
        ord == IF best = None THEN "Less"
               ELSE IF diff < flf64(-1) THEN "Less"
               ELSE IF FAbs(diff) < flf64(1) THEN "Equal"
               ELSE "Greater"
    IN  [verification |-> verification, comparison |-> ord, bks |-> best]

(***************************************************************************)
(* The calls of compare: a verification of 1 to 3 routes against no best   *)
(* known solution, or against one of 1 to 3 routes whose distance is that  *)
(* of the verification, or differs by 0.001, by less, or by more.          *)
(***************************************************************************)
\* The differences of distance, in the Floats of the server.
Differences ==
    { 0, 1, -1, flf64(1) - 1, 1 - flf64(1), flf64(1), flf64(-1),
      flf64(1) + 1, flf64(-1) - 1, flf64(3), flf64(-3) }

ComparedPairs ==
    { [verification |-> Verification("fleet", r, d),
       best |-> b] :
        r \in 1..3,
        d \in { InThousandths(fl(8)), InThousandths(fl(8)) + 7 },
        b \in {None} \cup { Some(Bks(rb, InThousandths(fl(8)) + diff, "2023-01-01")) :
                                rb \in 1..3, diff \in Differences } }

CompareInit ==
    /\ file \in ComparedPairs
    /\ inst = NotRead
    /\ sol = NotRead
    /\ pc = "compare"
    /\ db = NotRead
    /\ route_id = 0
    /\ total_distance = fl(0)
    /\ result = NoResult
    /\ log = <<>>

Compare ==
    /\ pc = "compare"
    /\ result' = Ok(compare(file.verification, file.best))
    /\ pc' = "done"
    /\ UNCHANGED <<db, file, inst, sol, route_id, total_distance, log>>

CompareNext == Compare

CompareSpec == CompareInit /\ [][CompareNext]_vars

(***************************************************************************)
(* Db and check.  A Db is the two tables: `instances' from the names of    *)
(* the instance files to their instances, `bks' from the names of          *)
(* instances to the best known solutions recorded for them, latest last.   *)
(***************************************************************************)
NoSuchInstance(name) == Err([kind |-> "No such instance", name |-> name])

Db_instance(d, name) ==
    IF name \in DOMAIN d.instances THEN Ok(d.instances[name]) ELSE NoSuchInstance(name)

Db_bks(d, name) ==
    IF name \in DOMAIN d.bks THEN Ok(d.bks[name]) ELSE NoSuchInstance(name)

\* <[_]>::last with cloned
last(v) == IF v = <<>> THEN None ELSE Some(v[Len(v)])

check(d, s) ==
    LET i == Db_instance(d, s.instance_name)
        best == Db_bks(d, s.instance_name)
    IN  IF i.tag # "Ok" THEN i
        ELSE IF best.tag # "Ok" THEN best
        ELSE LET distance == verify(i.val, s)
             IN  IF distance.tag # "Ok" THEN distance
                 ELSE Ok(compare(Verification(i.val.name, Len(s.routes),
                                              InThousandths(distance.val)),
                                 last(best.val)))

(***************************************************************************)
(* The requests to check a solution: the server holds two instances and    *)
(* best known solutions for both, for one or for none of them; the         *)
(* solution names one of the two or an instance the server does not hold.  *)
(***************************************************************************)
InstancesDb ==
    [n \in {<<"c", "1", "_", "2", "_", "1">>, <<"r", "1", "_", "2", "_", "1">>} |->
        IF n = <<"c", "1", "_", "2", "_", "1">> THEN FleetInst(2)
        ELSE SmallInst("tight", 4, 0, 25, 0, 100, 0, 100)]

\* The histories of best known solutions of one instance.
Histories ==
    { << Bks(2, InThousandths(fl(4)), "2023-01-01") >>,
      << Bks(2, InThousandths(fl(4)), "2023-01-01"),
         Bks(1, InThousandths(fl(3)), "2023-02-01") >> }

BksDbs == UNION { [names -> Histories] : names \in SUBSET DOMAIN InstancesDb }

\* The lists of routes sent: solutions of both instances, of one of them and
\* of neither.
CheckedRoutes ==
    { << <<1, 2>> >>, << <<2, 1>> >>, << <<1>>, <<2>> >>, << <<1>> >>,
      << <<1, 2>>, <<3>> >>, << <<1>>, <<2>>, <<3>> >>, << <<1, 2, 3>> >>,
      << <<1, 2>>, <<2>> >>, << >> }

CheckInit ==
    /\ db \in { [instances |-> InstancesDb, bks |-> b] : b \in BksDbs }
    /\ sol \in { [instance_name |-> n, routes |-> r] :
                    n \in DOMAIN InstancesDb \cup {<<"c", "2", "_", "2", "_", "1">>}, r \in CheckedRoutes }
    /\ file = None
    /\ inst = NotRead
    /\ pc = "check"
    /\ route_id = 0
    /\ total_distance = fl(0)
    /\ result = NoResult
    /\ log = <<>>

Check ==
    /\ pc = "check"
    /\ result' = check(db, sol)
    /\ pc' = "done"
    /\ UNCHANGED <<db, file, inst, sol, route_id, total_distance, log>>

CheckNext == Check

CheckSpec == CheckInit /\ [][CheckNext]_vars

(***************************************************************************)
(* The files of best known solutions.  A file b has a name, the text in it *)
(* (as the solution parser takes it: the name field and the route lines)   *)
(* and the date its directory is named by.                                 *)
(***************************************************************************)
\* fs::metadata(b.path()).len(): the bytes of the file, a line end after the
\* name field and after every route line.
metadata_len(b) ==
    LET field == IF b.text.name = <<>> THEN 0 ELSE Len(b.text.name) + 1
        RECURSIVE bytes(_)
        bytes(k) == IF k > Len(b.text.lines) THEN 0
                    ELSE Len(b.text.lines[k].label) + Len(b.text.lines[k].body) + 1
                         + bytes(k + 1)
    IN  field + bytes(1)

\* str::split_once and str::rsplit_once at a character
split_once(s, ch) ==
    LET at == { k \in 1..Len(s) : s[k] = ch }
        k == CHOOSE k \in at : \A j \in at : k <= j
    IN  IF at = {} THEN None ELSE <<SubSeq(s, 1, k - 1), SubSeq(s, k + 1, Len(s))>>

rsplit_once(s, ch) ==
    LET at == { k \in 1..Len(s) : s[k] = ch }
        k == CHOOSE k \in at : \A j \in at : k >= j
    IN  IF at = {} THEN None ELSE <<SubSeq(s, 1, k - 1), SubSeq(s, k + 1, Len(s))>>

\* str::parse::<f64> of a decimal text (a sign, digits, and up to three
\* digits after a point), in thousandths; texts with an exponent or with
\* more digits after the point are not among the file names.
ParseF64(tok) ==
    LET signed == tok # <<>> /\ tok[1] \in {"+", "-"}
        body == IF signed THEN Tail(tok) ELSE tok
        parts == split_once(body, ".")
        whole == IF parts = None THEN body ELSE parts[1]
        frac == IF parts = None THEN <<>> ELSE parts[2]
        digits(t) == \A k \in 1..Len(t) : IsDigit(t[k])
        padded == frac \o SubSeq(<<"0", "0", "0">>, 1, 3 - Len(frac))
        value == (IF whole = <<>> THEN 0 ELSE ParseDigits(whole, 1, TRUE, 0).val) * 1000
                 + ParseDigits(padded, 1, TRUE, 0).val
    IN  IF ~digits(whole) \/ ~digits(frac) \/ whole \o frac = <<>> \/ Len(frac) > 3
        THEN Err("invalid float literal")
        ELSE Ok(IF signed /\ tok[1] = "-" THEN 0 - value ELSE value)

\* read::<Solution> of the file
read_Solution(b) == Solution_from_str(b.text)

calculate(b, instances) ==
    LET s == read_Solution(b)
        distance == verify(instances[s.val.instance_name], s.val)
    IN  IF s.tag # "Ok" THEN Panic("unwrap of the solution")
        ELSE IF s.val.instance_name \notin DOMAIN instances
        THEN Panic("unwrap of the instance")
        ELSE IF distance.tag # "Ok" THEN Panic("unwrap of the distance")
        ELSE Ok(<<s.val.instance_name, Len(s.val.routes), InThousandths(distance.val)>>)

extract_from_file_name(b) ==
    LET first == split_once(b.file_name, ".")
        second == rsplit_once(first[2], ".")
        third == split_once(second[1], "_")
        routes == ParseUsize(third[1])
        quality == ParseF64(third[2])
    IN  IF first = None \/ second = None \/ third = None
        THEN Panic("unwrap of the split")
        ELSE IF routes.tag # "Ok" THEN Panic("unwrap of the routes")
        ELSE IF quality.tag # "Ok" THEN Panic("unwrap of the quality")
        ELSE Ok(<<first[1], routes.val, flf64(quality.val)>>)

\* The name, the routes and the distance read_bks of main.rs takes for file b.
main_read_bks(b, instances) ==
    IF metadata_len(b) > 0 THEN calculate(b, instances) ELSE extract_from_file_name(b)

\* create_bks of data.rs, with the name and the best known solution apart
\* as in main.rs.
create_bks(b, instances) ==
    LET empty_file == metadata_len(b) > 0
    IN  IF empty_file THEN extract_from_file_name(b) ELSE calculate(b, instances)

\* `(*bks.entry(name).or_insert(vec![])).push(best)'
entry_push(bks, name, best) ==
    [n \in DOMAIN bks \cup {name} |->
        IF n = name THEN (IF n \in DOMAIN bks THEN bks[n] ELSE <<>>) \o <<best>>
        ELSE bks[n]]

(***************************************************************************)
(* One file of the directory of best known solutions, read by read_bks of  *)
(* main.rs or by read_bks of data.rs into a table that is empty or holds   *)
(* an earlier best known solution.                                         *)
(***************************************************************************)
BksFileNames ==
    { <<"c", "1", "_", "2", "_", "1", ".", "2", "_", "4", ".", "8", "2", ".", "s", "o", "l">>,
      <<"c", "1", "_", "2", "_", "1", ".", "1", "_", "3", ".", "5", ".", "s", "o", "l">>,
      <<"r", "1", "_", "2", "_", "1", ".", "1", "_", "4", ".", "t", "x", "t">>,
      <<"c", "1", "_", "2", "_", "1", ".", "3", "_", "-", "0", ".", "0", "0", "1", ".", "s", "o", "l">>,
      <<"c", "1", "_", "2", "_", "1", ".", "s", "o", "l">>,
      <<"c", "1", "_", "2", "_", "1">>,
      <<"c", "1", "_", "2", "_", "1", ".", "x", "_", "3", ".", "5", ".", "s", "o", "l">>,
      <<"c", "1", "_", "2", "_", "1", ".", "2", "_", "a", "b", "c", ".", "s", "o", "l">> }

BksTexts ==
    { [name |-> <<>>, lines |-> <<>>] }
    \cup { SolutionFileOf(<<"c", "1", "_", "2", "_", "1">>, r, "from 0", "space") :
             r \in { << <<1, 2>> >>, << <<1>>, <<2>> >>, << <<2, 1>> >>, << <<1>> >>,
                     << <<1, 2>>, <<1>> >> } }
    \cup { SolutionFileOf(<<"c", "2", "_", "2", "_", "1">>, << <<1, 2>> >>, "from 0", "space"),
           SolutionFileOf(<<>>, << <<1, 2>> >>, "from 0", "space"),
           [name |-> <<"c", "1", "_", "2", "_", "1">>, lines |-> << [label |-> <<"0">>, body |-> <<"1", " ", "x">>] >>] }

BksFiles ==
    { [file_name |-> n, text |-> t, date |-> "2023-02-01"] :
        n \in BksFileNames, t \in BksTexts }

BksInit ==
    /\ file \in BksFiles
    /\ db \in { [instances |-> InstancesDb, bks |-> b] :
                   b \in { [n \in {} |-> <<>>],
                           [n \in {<<"c", "1", "_", "2", "_", "1">>} |->
                               << Bks(2, InThousandths(fl(5)), "2023-01-01") >>] } }
    /\ inst = NotRead
    /\ sol = NotRead
    /\ pc = "read_bks"
    /\ route_id = 0
    /\ total_distance = fl(0)
    /\ result = NoResult
    /\ log = <<>>

\* The body of the loop of a loader that takes `taken' from the file: the
\* best known solution is pushed, or the loader panics.
ReadBksFile(loader, taken) ==
    /\ pc = "read_bks"
    /\ result' = taken
    /\ db' = IF taken.tag # "Ok" THEN db
             ELSE [db EXCEPT !.bks = entry_push(@, taken.val[1],
                                               Bks(taken.val[2], taken.val[3], file.date))]
    /\ log' = Append(log, [check |-> loader, route |-> 0, res |-> taken])
    /\ pc' = "done"
    /\ UNCHANGED <<file, inst, sol, route_id, total_distance>>

MainReadBks == ReadBksFile("main.rs", main_read_bks(file, db.instances))

DataReadBks == ReadBksFile("data.rs", create_bks(file, db.instances))

BksNext == MainReadBks \/ DataReadBks

BksSpec == BksInit /\ [][BksNext]_vars

(***************************************************************************)
(* What the claims speak of, said without the code's loops.                *)
(***************************************************************************)
\* The number of points of the instance.
NPoints == Len(inst.pts)

\* The stops of the solution: <<r, p>> is the stop at index p (from 1) of
\* route r (from 1).
Positions ==
    UNION { { <<r, p>> : p \in 1..Len(sol.routes[r]) } : r \in 1..Len(sol.routes) }

NodeAt(rp) == sol.routes[rp[1]][rp[2]]

\* The stops that visit id.
Visits(id) == { rp \in Positions : NodeAt(rp) = id }

\* Stop a is scanned before stop b.
Before(a, b) == a[1] < b[1] \/ (a[1] = b[1] /\ a[2] < b[2])

\* The routes partition the non-depot points.
IsPartition ==
    /\ \A rp \in Positions : NodeAt(rp) \in 1..(NPoints - 1)
    /\ \A id \in 1..(NPoints - 1) : Cardinality(Visits(id)) = 1

\* A stop that basic sanity objects to: the depot, an id that is no point, or
\* an id visited before.
Offends(rp) ==
    \/ NodeAt(rp) = 0
    \/ NodeAt(rp) >= NPoints
    \/ \E q \in Visits(NodeAt(rp)) : Before(q, rp)

Offenders == { rp \in Positions : Offends(rp) }

FirstOffender == CHOOSE rp \in Offenders : \A q \in Offenders : q = rp \/ Before(rp, q)

\* The check `name' has been run (on route r; 0 for a check of the whole
\* solution), and what it returned.
Ran(name, r) == \E k \in 1..Len(log) : log[k].check = name /\ log[k].route = r

ResultOf(name, r) ==
    log[CHOOSE k \in 1..Len(log) : log[k].check = name /\ log[k].route = r].res

\* The kind of the error of a result, or its tag when it is no error.
KindOf(res) == IF res.tag = "Err" THEN res.msg.kind ELSE res.tag

\* The demand on board after the first k stops of a route.
RECURSIVE LoadAfter(_, _)
LoadAfter(route, k) ==
    IF k = 0 THEN 0 ELSE LoadAfter(route, k - 1) + inst.pts[route[k] + 1].demand

\* The stops (from 1) of a route after which the load is out of 0..max_capacity.
BadLoads(route) ==
    { k \in 1..Len(route) :
        LoadAfter(route, k) < 0 \/ LoadAfter(route, k) > inst.max_capacity }

Least(S) == CHOOSE k \in S : \A j \in S : k <= j

\* What the claim promises of the load check of route r.
LoadVerdict(r) ==
    LET route == sol.routes[r]
        k == Least(BadLoads(route))
    IN  IF BadLoads(route) = {} THEN Ok(Unit)
        ELSE IF LoadAfter(route, k) < 0
        THEN Err([kind |-> "negative load", node |-> route[k], route |-> r,
                  position |-> k - 1])
        ELSE Err([kind |-> "load greater than max", load |-> LoadAfter(route, k),
                  max |-> inst.max_capacity, node |-> route[k], route |-> r,
                  position |-> k - 1])

\* The trip of a route: the depot, its stops, the depot.
Trip(route) == <<0>> \o route \o <<0>>

TripPoint(route, k) == inst.pts[Trip(route)[k] + 1]

\* The times at which the vehicle reaches and leaves the k-th point of the
\* trip, were it never stopped for being late: it leaves the depot at
\* start + service, and any other point after waiting for its start and
\* serving it.
RECURSIVE Leaves(_, _)
Reaches(route, k) ==
    Leaves(route, k - 1)
        + FSqrt((TripPoint(route, k - 1).x - TripPoint(route, k).x)
                    * (TripPoint(route, k - 1).x - TripPoint(route, k).x)
                + (TripPoint(route, k - 1).y - TripPoint(route, k).y)
                    * (TripPoint(route, k - 1).y - TripPoint(route, k).y))

Leaves(route, k) ==
    IF k = 1 THEN (inst.pts[1].start + inst.pts[1].service) * Scale
    ELSE (IF Reaches(route, k) < TripPoint(route, k).start * Scale
          THEN TripPoint(route, k).start * Scale
          ELSE Reaches(route, k))
         + TripPoint(route, k).service * Scale

\* The points of the trip (from 2: the first stop) reached after their due.
LateAt(route) ==
    { k \in 2..Len(Trip(route)) :
        Reaches(route, k) > TripPoint(route, k).due * Scale }

\* What the claim promises of the time check of route r.
TimeVerdict(r) ==
    LET route == sol.routes[r]
        k == Least(LateAt(route))
    IN  IF LateAt(route) = {} THEN Ok(Unit)
        ELSE IF k = Len(Trip(route))
        THEN Err([kind |-> "too late at depot", time |-> Reaches(route, k),
                  route |-> r])
        ELSE Err([kind |-> "too late", time |-> Reaches(route, k),
                  node |-> route[k - 1], route |-> r, position |-> k - 2])

\* The length of the trip of a route.
RECURSIVE TripLength(_, _)
TripLength(route, k) ==
    IF k = 1 THEN 0
    ELSE TripLength(route, k - 1) + dist(TripPoint(route, k - 1), TripPoint(route, k))

\* The length of the trips of the first r routes.
RECURSIVE TripsLength(_)
TripsLength(r) ==
    IF r = 0 THEN 0
    ELSE TripsLength(r - 1) + TripLength(sol.routes[r], Len(sol.routes[r]) + 2)

\* The pair of point pt: its pickup and its delivery.
PairOf(pt) == inst.pts[pt + 1].pickup_delivery

PickupOf(pt) == IF PairOf(pt)[1] # 0 THEN PairOf(pt)[1] ELSE pt

DeliveryOf(pt) == IF PairOf(pt)[1] # 0 THEN pt ELSE PairOf(pt)[2]

\* The route (from 1) that visits id and the index (from 0) of id in it, for
\* an id visited once.
RouteOf(id) == (CHOOSE rp \in Visits(id) : TRUE)[1]

IndexOf(id) == (CHOOSE rp \in Visits(id) : TRUE)[2] - 1

Unpaired(pt) == PairOf(pt) = None

Split(pt) == ~Unpaired(pt) /\ RouteOf(PickupOf(pt)) # RouteOf(DeliveryOf(pt))

Misordered(pt) ==
    ~Unpaired(pt) /\ ~Split(pt) /\ IndexOf(PickupOf(pt)) > IndexOf(DeliveryOf(pt))

\* The points the pickup/delivery check stops at.
PdpOffenders ==
    { pt \in 1..(NPoints - 1) : Unpaired(pt) \/ Split(pt) \/ Misordered(pt) }

\* The checks of verify in the order the claim as amended gives them, each
\* with the route it is run on (0: the whole solution).
RECURSIVE RouteChecks(_)
RouteChecks(r) ==
    IF r > Len(sol.routes) THEN <<>>
    ELSE << <<"time", r>>, <<"load", r>> >> \o RouteChecks(r + 1)

ChecksInOrder ==
    << <<"check_sanity", 0>>, <<"basic_sanity", 0>> >>
    \o (IF inst.is_pdp THEN << <<"pdp", 0>> >> ELSE <<>>)
    \o << <<"fleet", 0>> >>
    \o RouteChecks(1)

\* The first three checks of verify have passed.
FirstThreePassed ==
    /\ Ran("fleet", 0)
    /\ ResultOf("fleet", 0).tag = "Ok"

\* The routes with a time violation, with a load violation, with no stop.
LateRoutes == { r \in 1..Len(sol.routes) : LateAt(sol.routes[r]) # {} }
OverloadedRoutes == { r \in 1..Len(sol.routes) : BadLoads(sol.routes[r]) # {} }
EmptyRoutes == { r \in 1..Len(sol.routes) : sol.routes[r] = <<>> }

(***************************************************************************)
(* C1 - C5                                                                 *)
(***************************************************************************)
\* C1: check_basic_sanity returns Ok if and only if the routes of the solution
\* partition the non-depot points (every id 1..N-1 exactly once, no id 0, no id
\* outside 0..N-1), and every other solution yields an error value.
C1_SanityIffPartition ==
    Ran("basic_sanity", 0) =>
        /\ ResultOf("basic_sanity", 0).tag = "Ok" <=> IsPartition
        /\ ~IsPartition => ResultOf("basic_sanity", 0).tag = "Err"

\* C2: a stop whose id is no point of the instance (id >= N, id = N included)
\* makes check_basic_sanity return the error 'node <id> in route <r> at
\* position <p> is not described in the instance' as a value (when no earlier
\* stop offends); the point table is never indexed outside.
C2_NotDescribedIsAnError ==
    Ran("basic_sanity", 0) =>
        /\ ResultOf("basic_sanity", 0).tag # "Panic"
        /\ (Offenders # {} /\ NodeAt(FirstOffender) >= NPoints) =>
               ResultOf("basic_sanity", 0) =
                   Err([kind |-> "not described", node |-> NodeAt(FirstOffender),
                        route |-> FirstOffender[1],
                        position |-> FirstOffender[2] - 1])

C4_VerifyNeverAborts ==
    pc = "done" => result.tag \in {"Ok", "Err"}

\* C5: verify returns a distance only if the number of routes is at most
\* instance.vehicles, whatever integer vehicles is; with the earlier checks
\* passed and more routes r than vehicles v the result is the error 'more
\* vehicles than allowed (r > v)'.
C5_NoMoreRoutesThanVehicles ==
    /\ (pc = "done" /\ result.tag = "Ok") => Len(sol.routes) <= inst.vehicles
    /\ (Ran("fleet", 0) /\ Len(sol.routes) > inst.vehicles) =>
          ResultOf("fleet", 0) =
              Err([kind |-> "more vehicles than allowed",
                   routes |-> Len(sol.routes), vehicles |-> inst.vehicles])

(***************************************************************************)
(* C6 - C10                                                                *)
(***************************************************************************)
\* C6: check_route_load accumulates the demands from 0 along the route and
\* returns Ok iff every prefix sum lies in 0..max_capacity; otherwise the
\* error of the smallest position whose prefix sum is negative or above
\* max_capacity, with the point, the route and the position, and for a load
\* above the capacity the load and the limit.
C6_LoadCheckIsPrefixSums ==
    \A r \in 1..Len(sol.routes) :
        Ran("load", r) => ResultOf("load", r) = LoadVerdict(r)

\* C6's case: the load check has failed past the first stop of a route.
C6_Witness ==
    \E r \in 1..Len(sol.routes) :
        /\ Ran("load", r)
        /\ KindOf(ResultOf("load", r)) = "load greater than max"
        /\ ResultOf("load", r).msg.position >= 1

C8_Witness ==
    /\ pc = "done"
    /\ result.tag = "Ok"
    /\ Len(sol.routes) = 2
    /\ \E r \in 1..2 : Len(sol.routes[r]) >= 2

\* C8: a distance returned by verify means that every check has passed for
\* every route, and is the sum over the routes of the length of depot, stops,
\* depot; on the ring with the routes [[1,2,3],[4,5,6]] it is 8.
C8_DistanceIsTheSumOfTrips ==
    /\ (pc = "done" /\ result.tag = "Ok") =>
          /\ IsPartition
          /\ \A k \in 1..Len(ChecksInOrder) :
                /\ Ran(ChecksInOrder[k][1], ChecksInOrder[k][2])
                /\ ResultOf(ChecksInOrder[k][1], ChecksInOrder[k][2]).tag = "Ok"
          /\ LateRoutes = {} /\ OverloadedRoutes = {}
          /\ result.val = TripsLength(Len(sol.routes))
    /\ (pc = "done" /\ inst = RingInst
          /\ sol.routes = << <<1, 2, 3>>, <<4, 5, 6>> >>) => result = Ok(8 * Scale)

\* C9: on a PDP instance verify returns a distance only if every pickup is
\* in the route of its delivery; a pair split over two routes yields the
\* error that names the pickup, the delivery and the numbers (from 1) of
\* their two routes.
C9_PairsShareARoute ==
    /\ (pc = "done" /\ result.tag = "Ok" /\ inst.is_pdp) =>
          \A pt \in 1..(NPoints - 1) : ~Unpaired(pt) /\ ~Split(pt)
    /\ (Ran("pdp", 0) /\ PdpOffenders # {}) =>
          LET pt == Least(PdpOffenders)
              split == Err([kind |-> "not in the same routes",
                            pickup |-> PickupOf(pt), delivery |-> DeliveryOf(pt),
                            pickup_route |-> RouteOf(PickupOf(pt)),
                            delivery_route |-> RouteOf(DeliveryOf(pt))])
          IN  IF Split(pt) THEN ResultOf("pdp", 0) = split
              ELSE KindOf(ResultOf("pdp", 0)) \notin {"Ok", "not in the same routes"}
    /\ (Ran("pdp", 0) /\ PdpOffenders = {}) => ResultOf("pdp", 0).tag = "Ok"

\* C9's case: the pickup/delivery check has refused a pair split over two
\* routes, after a pair that shares one.
C9_Witness ==
    /\ Ran("pdp", 0)
    /\ KindOf(ResultOf("pdp", 0)) = "not in the same routes"
    /\ ResultOf("pdp", 0).msg.pickup >= 3
    /\ pc = "done"

\* C10: on a PDP instance verify returns a distance only if every pickup is
\* at the position of its delivery or before it; a delivery before its pickup
\* yields the error that names the two points and their positions (from 0),
\* and only a delivery strictly before its pickup does.
C10_PickupNotAfterDelivery ==
    /\ (pc = "done" /\ result.tag = "Ok" /\ inst.is_pdp) =>
          \A pt \in 1..(NPoints - 1) :
              IndexOf(PickupOf(pt)) <= IndexOf(DeliveryOf(pt))
    /\ (Ran("pdp", 0) /\ PdpOffenders # {}) =>
          LET pt == Least(PdpOffenders)
              early == Err([kind |-> "delivery before pickup",
                            delivery |-> DeliveryOf(pt), pickup |-> PickupOf(pt),
                            delivery_position |-> IndexOf(DeliveryOf(pt)),
                            pickup_position |-> IndexOf(PickupOf(pt))])
          IN  IF Misordered(pt) THEN ResultOf("pdp", 0) = early
              ELSE KindOf(ResultOf("pdp", 0)) \notin {"Ok", "delivery before pickup"}
    /\ (Ran("pdp", 0) /\ ResultOf("pdp", 0).tag = "Ok") =>
          \A pt \in 1..(NPoints - 1) : ~Misordered(pt)
    /\ (Ran("pdp", 0) /\ KindOf(ResultOf("pdp", 0)) = "delivery before pickup") =>
          \E pt \in 1..(NPoints - 1) : Misordered(pt)

\* C10's case: the pickup/delivery check has refused a delivery placed before
\* its pickup in the route they share.
C10_Witness ==
    /\ Ran("pdp", 0)
    /\ KindOf(ResultOf("pdp", 0)) = "delivery before pickup"
    /\ ResultOf("pdp", 0).msg.delivery_position < ResultOf("pdp", 0).msg.pickup_position
    /\ pc = "done"

(***************************************************************************)
(* C11 - C12: the lines of points, said without the code's loops.          *)
(***************************************************************************)
\* The places (from 1) of the line s where a token begins, and where the
\* token that begins at k ends.
TokenStarts(s) ==
    { k \in 1..Len(s) : ~is_whitespace(s[k]) /\ (k = 1 \/ is_whitespace(s[k - 1])) }

TokenEnd(s, k) ==
    CHOOSE e \in k..Len(s) :
        /\ \A j \in k..e : ~is_whitespace(s[j])
        /\ e = Len(s) \/ is_whitespace(s[e + 1])

\* The tokens of the line s, in their order.
TokensOf(s) ==
    LET starts == TokenStarts(s)
        start(j) == CHOOSE a \in starts :
                        Cardinality({ b \in starts : b < a }) = j - 1
    IN  [j \in 1..Cardinality(starts) |-> SubSeq(s, start(j), TokenEnd(s, start(j)))]

\* The numbers whose texts the drawn lines hold.
KnownNumbers == ((0 - MaxTokens)..MaxTokens) \cup {I32Max, I32Min}

\* The text of each of them.
KnownTexts == [n \in KnownNumbers |-> Decimal(n)]

\* The text of a 32-bit integer: a sign or none, then digits that spell a
\* number of the range; and the number it spells.
Spells(tok, n) ==
    /\ tok # <<>>
    /\ LET signed == tok[1] \in {"+", "-"}
           digits == IF signed THEN Tail(tok) ELSE tok
       IN  /\ digits # <<>>
           /\ \A k \in 1..Len(digits) : IsDigit(digits[k])
           /\ KnownTexts[n] = (IF tok[1] = "-" /\ n # 0 THEN <<"-">> ELSE <<>>)
                                  \o WithoutZeros(digits)

IsInteger(tok) == \E n \in KnownNumbers : Spells(tok, n)

ValueOf(tok) == CHOOSE n \in KnownNumbers : Spells(tok, n)

\* The tokens (from 1) of a line that are no 32-bit integers.
NoIntegers(tokens) == { j \in 1..Len(tokens) : ~IsInteger(tokens[j]) }

\* The point that seven or nine integers describe.
PointOf(tokens) ==
    LET v(j) == ValueOf(tokens[j])
    IN  Pt(v(1), v(2), v(3), v(4), v(5), v(6), v(7),
           IF Len(tokens) = 9 THEN <<v(8), v(9)>> ELSE None)

\* C11: Point::from_str succeeds only for a line of exactly 7 or exactly 9
\* integer tokens; 7 give the fields id, x, y, demand, start, due, service in
\* that order and no pair, 9 give the pair (8th, 9th) too; a line of integers
\* of any other count n gives the error 'expected 7 or 9 integers in line
\* <line>, have <n> numbers'.
C11_SevenOrNineIntegers ==
    pc = "done" =>
        LET tokens == TokensOf(file)
            integers == NoIntegers(tokens) = {}
        IN  /\ result.tag = "Ok" => Len(tokens) \in {7, 9} /\ integers
            /\ (integers /\ Len(tokens) \in {7, 9}) => result = Ok(PointOf(tokens))
            /\ (integers /\ Len(tokens) \notin {7, 9}) =>
                   result = Err([kind |-> "expected 7 or 9 integers",
                                 line |-> file, nums |-> Len(tokens)])

\* C11's case: a line of nine integers laid out in runs of blanks has given a
\* point with its pair.
C11_Witness ==
    /\ pc = "done"
    /\ result.tag = "Ok"
    /\ result.val.pickup_delivery = <<7, 8>>
    /\ Len(file) > 20

\* C12: a line with a token that is no 32-bit integer gives the error that
\* names the line, the index (from 0) of the first such token and the token,
\* whatever the number of tokens of the line.
C12_FirstBadTokenIsReported ==
    pc = "done" =>
        LET tokens == TokensOf(file)
            j == Least(NoIntegers(tokens))
        IN  NoIntegers(tokens) # {} =>
                result = Err([kind |-> "can't parse line", line |-> file,
                              field |-> j - 1, token |-> tokens[j]])

\* C12's case: a line of a wrong number of tokens, a later one of them no
\* integer, has given the error of that token.
C12_Witness ==
    /\ pc = "done"
    /\ Len(TokensOf(file)) \notin {7, 9}
    /\ KindOf(result) = "can't parse line"
    /\ result.msg.field >= 2
    /\ Cardinality(NoIntegers(TokensOf(file))) >= 2

(***************************************************************************)
(* C13: the two parsers of instances.                                      *)
(***************************************************************************)
\* The parser pc names has run; what it returned.
Parsed(parser) == Ran(parser, 0)

\* C13: each of the two Instance::from_str runs the sanity checks on the
\* instance it has built and returns Ok only for an instance that passes
\* them; the first violation is the error it returns.
C13_ParsersRunTheSanityChecks ==
    \A parser \in {"verifier::Instance::from_str", "reader::Instance::from_str"} :
        (Parsed(parser) /\ BuildInstance(file).tag = "Ok") =>
            LET built == BuildInstance(file).val
            IN  IF check_sanity(built).tag = "Ok"
                THEN ResultOf(parser, 0) = Ok(built)
                ELSE ResultOf(parser, 0) = check_sanity(built)

(***************************************************************************)
(* C14 - C17: the instances check_sanity accepts.                          *)
(***************************************************************************)
\* check_sanity has accepted the instance; it has refused it with an error.
Accepted == Ran("check_sanity", 0) /\ ResultOf("check_sanity", 0).tag = "Ok"

Rejected == Ran("check_sanity", 0) /\ ResultOf("check_sanity", 0).tag = "Err"

\* Point k (from 0) of the instance.
PointNo(k) == inst.pts[k + 1]

IdsAndDepot ==
    /\ NPoints >= 2
    /\ \A k \in 0..(NPoints - 1) : PointNo(k).id = k
    /\ PointNo(0).demand = 0

\* C14: an instance accepted by check_sanity has at least two points, the id
\* i at every index i and a depot of demand 0; an instance without one of
\* these is rejected with an error.
C14_AcceptedHaveIdsAndDepot ==
    Ran("check_sanity", 0) =>
        /\ Accepted => IdsAndDepot
        /\ ~IdsAndDepot => Rejected

\* C14's case: an instance of three points is accepted.
C14_Witness ==
    /\ Accepted
    /\ inst.name = "ids and demands"
    /\ NPoints = 3

\* C15: in an instance accepted by check_sanity no demand is above
\* max_capacity, and a demand is negative only if is_pdp.
C15_AcceptedDemands ==
    Accepted =>
        \A k \in 0..(NPoints - 1) :
            /\ PointNo(k).demand <= inst.max_capacity
            /\ PointNo(k).demand < 0 => inst.is_pdp

\* C15's case: an instance with a negative demand is accepted.
C15_Witness ==
    /\ Accepted
    /\ \E k \in 0..(NPoints - 1) : PointNo(k).demand < 0

\* The pair of point k is consistent: at most one slot is nonzero, the partner
\* is a point with a pair, that pair names k in the other slot, and the two
\* demands sum to zero.
PairConsistent(k) ==
    LET p == PointNo(k).pickup_delivery[1]
        d == PointNo(k).pickup_delivery[2]
        partner == IF p # 0 THEN p ELSE d
    IN  /\ p = 0 \/ d = 0
        /\ partner \in 0..(NPoints - 1)
        /\ PointNo(partner).pickup_delivery # None
        /\ PointNo(partner).pickup_delivery = (IF p # 0 THEN <<0, k>> ELSE <<k, 0>>)
        /\ PointNo(k).demand + PointNo(partner).demand = 0

\* C16: in an instance accepted by check_sanity the pair of every point that
\* carries one is consistent, the partner naming the point back in the
\* complementary slot.
C16_AcceptedPairsAreConsistent ==
    Accepted =>
        \A k \in 0..(NPoints - 1) :
            PointNo(k).pickup_delivery # None => PairConsistent(k)

\* The three demands of C17 on point k, in 1/Scale units.
ThereAndBack(k) ==
    LET p == PointNo(k)
        depot == PointNo(0)
        way == FSqrt((depot.x - p.x) * (depot.x - p.x) + (depot.y - p.y) * (depot.y - p.y))
        arrival == depot.start * Scale + way
        served == (IF p.start * Scale >= arrival THEN p.start * Scale ELSE arrival)
                      + p.service * Scale
    IN  /\ p.start <= p.due
        /\ arrival <= p.due * Scale
        /\ served + way <= depot.due * Scale

\* C17: in an instance accepted by check_sanity every point p has start <=
\* due, is reached from the depot by its due (depot.start + dist <= p.due) and
\* lets the vehicle return in time (max(p.start, depot.start + dist) +
\* p.service + dist <= depot.due); an instance with a point that fails one of
\* the three is rejected.
C17_AcceptedTimes ==
    Ran("check_sanity", 0) =>
        /\ Accepted => \A k \in 0..(NPoints - 1) : ThereAndBack(k)
        /\ (\E k \in 0..(NPoints - 1) : ~ThereAndBack(k)) => ~Accepted

\* C17's case: an instance whose client is reached before its start, the
\* return exactly at the depot's due, is accepted.
C17_Witness ==
    /\ Accepted
    /\ inst.name = "times"
    /\ PointNo(1).start * Scale > PointNo(0).start * Scale + dist(PointNo(0), PointNo(1))
    /\ (PointNo(1).start + PointNo(1).service) * Scale + dist(PointNo(1), PointNo(0))
           = PointNo(0).due * Scale

(***************************************************************************)
(* C18                                                                     *)
(***************************************************************************)
\* C18: an instance returned by Instance::from_str of the verifier has is_pdp
\* true if and only if at least one of its points carries a pair.
C18_PdpIffSomePair ==
    (Parsed("verifier::Instance::from_str") /\ result.tag = "Ok") =>
        (result.val.is_pdp <=>
            \E k \in 1..Len(result.val.pts) : result.val.pts[k].pickup_delivery # None)

\* C18's case: the verifier has returned an instance read from rows of nine
\* numbers, and has refused a file whose depot has no pair and whose client
\* has one.
C18_Witness ==
    /\ Parsed("verifier::Instance::from_str")
    /\ result.tag = "Ok"
    /\ result.val.is_pdp
    /\ result.val.pts[2].pickup_delivery = <<0, 2>>

(***************************************************************************)
(* C19 - C20: the file of a solution.                                      *)
(***************************************************************************)
\* The solution of the file has been read.
SolutionRead ==
    Ran("Solution::from_str", 0) /\ ResultOf("Solution::from_str", 0).tag = "Ok"

\* The places of a text that hold no blank, and the j-th of them.
Inked(s) == { k \in 1..Len(s) : ~is_whitespace(s[k]) }

InkedAt(s, j) ==
    CHOOSE a \in Inked(s) : Cardinality({ b \in Inked(s) : b < a }) = j - 1

\* b is the small letter of the capital a, or a itself when a is no capital.
SmallOf(a, b) ==
    IF \E j \in DOMAIN Upper : Upper[j] = a
    THEN \E j \in DOMAIN Upper : Upper[j] = a /\ Lower[j] = b
    ELSE b = a

\* n is the text s in small letters and without its blanks.
NameOfField(s, n) ==
    /\ Len(n) = Cardinality(Inked(s))
    /\ \A j \in 1..Len(n) : SmallOf(s[InkedAt(s, j)], n[j])

\* Two texts that differ in case and blanks only.
SameButCaseAndBlanks(s, t) ==
    /\ Cardinality(Inked(s)) = Cardinality(Inked(t))
    /\ \A j \in 1..Cardinality(Inked(s)) :
          LET a == s[InkedAt(s, j)]
              b == t[InkedAt(t, j)]
          IN  a = b \/ \E l \in DOMAIN Upper : {a, b} = {Upper[l], Lower[l]}

\* The name of the solution read from the file with the name field s.
NameReadFrom(s) == Solution_from_str([file EXCEPT !.name = s])

\* C19: the instance name of a parsed solution is the text of the name field
\* in lower case with every whitespace character removed; reading the name
\* as a name field gives the name again, name fields that differ in case and
\* whitespace only give the same name, and a file without a name (that is
\* read successfully when it is given one) is read successfully, with the
\* empty name.
C19_NameIsLowerCaseWithoutWhitespace ==
    /\ SolutionRead =>
          /\ NameOfField(file.name, sol.instance_name)
          /\ NameReadFrom(sol.instance_name) = Ok(sol)
          /\ \A t \in NameFields :
                SameButCaseAndBlanks(file.name, t) =>
                    NameReadFrom(t) = Ok(sol)
    /\ (Ran("Solution::from_str", 0) /\ Inked(file.name) = {}
           /\ NameReadFrom(<<"c", "1", "_", "2", "_", "1">>).tag = "Ok") =>
          SolutionRead /\ sol.instance_name = <<>>

\* Witness: the name field of whitespace_in_instance_name has been read.
C19_Witness ==
    /\ SolutionRead
    /\ file.name = <<"r", "c", " ", "1", " ", "_", " ", "\t", " ", "4", "_", "1", "0">>
    /\ sol.instance_name = <<"r", "c", "1", "_", "4", "_", "1", "0">>

\* The numbers that the body of the k-th route line of the file lists.
ListedOn(k) ==
    LET tokens == TokensOf(file.lines[k].body)
    IN  [j \in 1..Len(tokens) |-> ValueOf(tokens[j])]

\* Stop number `position' (from 0) of route number `route' (from 1) is there
\* and is the node.
StopIs(route, position, node) ==
    /\ route \in 1..Len(sol.routes)
    /\ position \in 0..(Len(sol.routes[route]) - 1)
    /\ sol.routes[route][position + 1] = node
    /\ ListedOn(route)[position + 1] = node

\* Route number `route' (from 1) is there and visits the node.
RouteVisits(route, node) ==
    /\ route \in 1..Len(sol.routes)
    /\ \E position \in 0..(Len(sol.routes[route]) - 1) : StopIs(route, position, node)

\* The routes and positions an error of verify names are those of the file.
Located(m) ==
    CASE m.kind = "depot" -> StopIs(m.route, m.position, 0)
      [] m.kind \in {"not described", "too late", "negative load",
                     "load greater than max"} ->
            StopIs(m.route, m.position, m.node)
      [] m.kind = "twice" ->
            RouteVisits(m.route, m.node) /\ RouteVisits(m.other_route, m.node)
      [] m.kind = "too late at depot" -> m.route \in 1..Len(sol.routes)
      [] m.kind = "not in the same routes" ->
            /\ RouteVisits(m.pickup_route, m.pickup)
            /\ RouteVisits(m.delivery_route, m.delivery)
      [] m.kind = "delivery before pickup" ->
            \E route \in 1..Len(sol.routes) :
                /\ StopIs(route, m.pickup_position, m.pickup)
                /\ StopIs(route, m.delivery_position, m.delivery)
      [] OTHER -> TRUE

\* The checks of verify.
ChecksOfVerify == {"basic_sanity", "pdp", "fleet", "time", "load"}

\* C20: the k-th route line of the file becomes routes[k-1] whatever label
\* is printed after `Route', and every route number in an error returned by
\* verify is that position, counted from 1, every stop position the index,
\* counted from 0, of the stop within its route.
C20_RoutesAreNumberedByLine ==
    SolutionRead =>
        /\ Len(sol.routes) = Len(file.lines)
        /\ \A k \in 1..Len(file.lines) : sol.routes[k] = ListedOn(k)
        /\ \A k \in 1..Len(log) :
              (log[k].check \in ChecksOfVerify /\ log[k].res.tag = "Err") =>
                  Located(log[k].res.msg)

\* Witness: under labels that fall, the second route line is found late at
\* a stop that is not its first.
C20_Witness ==
    /\ SolutionRead
    /\ Len(file.lines) = 2
    /\ file.lines[1].label = <<"1">>
    /\ file.lines[2].label = <<"0">>
    /\ KindOf(result) = "too late"
    /\ result.msg.route = 2
    /\ result.msg.position > 0

(***************************************************************************)
(* C22                                                                     *)
(***************************************************************************)
\* The stops of the file whose token spells no usize: <<k, j>> is token j
\* (from 1) of route line k (from 1).
Unparsed ==
    UNION { { <<k, j>> : j \in { j \in 1..Len(TokensOf(file.lines[k].body)) :
                                    TokensOf(file.lines[k].body)[j] \in PastUsize } }
            : k \in 1..Len(file.lines) }

FirstVisit(rp) ==
    CHOOSE q \in Visits(NodeAt(rp)) : \A o \in Visits(NodeAt(rp)) : o = q \/ Before(q, o)

\* The error of a stop that offends: the depot, then an id that is no point,
\* then an id visited before.
ErrorOfStop(rp) ==
    IF NodeAt(rp) = 0
    THEN Err([kind |-> "depot", route |-> rp[1], position |-> rp[2] - 1])
    ELSE IF NodeAt(rp) >= NPoints
    THEN Err([kind |-> "not described", node |-> NodeAt(rp), route |-> rp[1],
              position |-> rp[2] - 1])
    ELSE Err([kind |-> "twice", node |-> NodeAt(rp), route |-> rp[1],
              other_route |-> FirstVisit(rp)[1]])

\* The points that no stop visits.
Unvisited == { id \in 1..(NPoints - 1) : Visits(id) = {} }

\* C23: check_basic_sanity returns the error of the first offending stop in
\* the order of the routes and of their stops, tested for the depot, then
\* for its range, then for an earlier visit (whose route is named second,
\* also when it is the same route); `not visited' is returned only when no
\* stop offends, for the smallest unvisited id.
C23_FirstOffendingStopIsReported ==
    Ran("basic_sanity", 0) =>
        ResultOf("basic_sanity", 0) =
            IF Offenders # {} THEN ErrorOfStop(FirstOffender)
            ELSE IF Unvisited # {}
            THEN Err([kind |-> "not visited", node |-> Least(Unvisited)])
            ELSE Ok(Unit)

\* The same for the solutions without a stop whose id is the number of points.
C23_ExceptForTheIdPastTheLast ==
    (Ran("basic_sanity", 0) /\ \A rp \in Positions : NodeAt(rp) # NPoints) =>
        ResultOf("basic_sanity", 0) =
            IF Offenders # {} THEN ErrorOfStop(FirstOffender)
            ELSE IF Unvisited # {}
            THEN Err([kind |-> "not visited", node |-> Least(Unvisited)])
            ELSE Ok(Unit)

(***************************************************************************)
(* C24                                                                     *)
(***************************************************************************)
\* The points but the depot that carry the pair (0, 0).
ZeroPairs == { k \in 1..(NPoints - 1) : PointNo(k).pickup_delivery = <<0, 0>> }

\* C24: in a PDP instance that check_sanity accepts the pair of the depot is
\* (0, 0) and no other point has the pair (0, 0); an instance with such a
\* point is refused with an error.
C24_OnlyTheDepotHasTheZeroPair ==
    /\ (Accepted /\ inst.is_pdp) =>
          PointNo(0).pickup_delivery = <<0, 0>> /\ ZeroPairs = {}
    /\ (Ran("check_sanity", 0) /\ inst.is_pdp /\ ZeroPairs # {}) => Rejected

\* Witness: a point of a PDP instance with the depot's pair (0, 0) has the
\* pair (0, 0) and zero demand, and the instance is refused.
C24_Witness ==
    /\ Rejected
    /\ PointNo(0).pickup_delivery = <<0, 0>>
    /\ PointNo(0).demand = 0
    /\ ZeroPairs = {2}
    /\ PointNo(2).demand = 0
    /\ KindOf(result) = "pair does not match"

(***************************************************************************)
(* C27                                                                     *)
(***************************************************************************)
\* C27: for every instance that check_sanity accepts and every point p but
\* the depot, check_route_time returns Ok on the route of the one stop p,
\* whatever the service time of the depot.
C27_AcceptedPointsCanBeServedAlone ==
    Accepted =>
        \A p \in 1..(NPoints - 1) : check_route_time(inst, 1, <<p>>) = Ok(Unit)

\* The same for the instances whose depot has no service time.
C27_WhenTheDepotServesInNoTime ==
    (Accepted /\ PointNo(0).service = 0) =>
        \A p \in 1..(NPoints - 1) : check_route_time(inst, 1, <<p>>) = Ok(Unit)

(***************************************************************************)
(* C28                                                                     *)
(***************************************************************************)
\* The partner that check_pdp resolves for point k: the pickup when there is
\* one, the delivery otherwise.
PartnerOf(k) ==
    IF PointNo(k).pickup_delivery[1] # 0 THEN PointNo(k).pickup_delivery[1]
    ELSE PointNo(k).pickup_delivery[2]

\* C28: in an instance with is_pdp that check_sanity accepts every point
\* carries a pair, and the partner each pair names is a point of the table.
C28_EveryPointOfAPdpInstanceHasAPair ==
    (Accepted /\ inst.is_pdp) =>
        \A k \in 0..(NPoints - 1) :
            /\ PointNo(k).pickup_delivery # None
            /\ PartnerOf(k) \in 0..(NPoints - 1)

\* Every point that carries a pair names a point of the table.
C28_PartnersAreInTheTable ==
    (Accepted /\ inst.is_pdp) =>
        \A k \in 0..(NPoints - 1) :
            PointNo(k).pickup_delivery # None => PartnerOf(k) \in 0..(NPoints - 1)

(***************************************************************************)
(* C26                                                                     *)
(***************************************************************************)
\* |m - n| <= d for two i32, without leaving the range (0 <= d).
Within(m, n, d) ==
    IF m >= n THEN (IF n >= 0 THEN m - n <= d ELSE m <= I32Max + n /\ m - n <= d)
    ELSE (IF m >= 0 THEN n - m <= d ELSE n <= I32Max + m /\ n - m <= d)

\* (ax - bx)^2 + (ay - by)^2 is a number of 31 bits: both differences are at
\* most the largest root, and the squares sum to at most i32::MAX.
SumOfSquaresFits(a, b) ==
    /\ Within(a.x, b.x, SqrtI32Max)
    /\ Within(a.y, b.y, SqrtI32Max)
    /\ (a.x - b.x) * (a.x - b.x) <= I32Max - (a.y - b.y) * (a.y - b.y)

\* C26: Point::dist returns the square root of (ax - bx)^2 + (ay - by)^2 for
\* every two points with 32-bit coordinates: no difference, square or sum
\* wraps or aborts.  (The number under the root is an i32, so it is the sum
\* of the squares only when that sum is one.)
C26_DistIsTheRootOfTheSumOfSquares ==
    pc = "done" =>
        /\ result.tag = "Ok"
        /\ SumOfSquaresFits(file[1], file[2])
        /\ result.val.sqrt_of =
              (file[1].x - file[2].x) * (file[1].x - file[2].x)
              + (file[1].y - file[2].y) * (file[1].y - file[2].y)

\* Where the sum of the squares is a number of 31 bits, both builds return
\* its root.
C26_WhereTheSumFits ==
    (pc = "done" /\ SumOfSquaresFits(file[1], file[2])) =>
        /\ result.tag = "Ok"
        /\ result.val.sqrt_of =
              (file[1].x - file[2].x) * (file[1].x - file[2].x)
              + (file[1].y - file[2].y) * (file[1].y - file[2].y)

(***************************************************************************)
(* C21, C25: compare                                                       *)
(***************************************************************************)
\* compare has been called with a best known solution.
Compared == pc = "done" /\ file.best # None

\* The distance of the best known solution less the distance of the
\* solution; the thousandth.
Diff == file.best[1].distance - file.verification.distance

Thousandth == flf64(1)

\* What the distances alone say: the solution is longer ("Less"), as long
\* ("Equal") or shorter ("Greater") than the best known one.
ByDistance ==
    IF Diff <= 0 - Thousandth THEN "Less"
    ELSE IF Diff >= Thousandth THEN "Greater"
    ELSE "Equal"

\* C21: the comparison is on the pair (routes, distance): a solution of
\* fewer routes than the best known one is better ("Greater") whatever the
\* distances, one of more routes is worse ("Less") whatever the distances,
\* and the distance decides for as many routes only.
C21_FewerRoutesIsBetter ==
    Compared =>
        result.val.comparison =
            IF file.verification.routes < file.best[1].routes THEN "Greater"
            ELSE IF file.verification.routes > file.best[1].routes THEN "Less"
            ELSE ByDistance

\* C25: with diff the distance of the best known solution less that of the
\* solution, compare gives Less for every diff at or below -0.001, Equal for
\* every diff within 0.001, Greater for every diff at or above 0.001; no
\* negative diff gives Greater.
C25_EpsilonIsAbsoluteAndMonotone ==
    Compared =>
        /\ result.val.comparison = ByDistance
        /\ Diff < 0 => result.val.comparison # "Greater"

\* The same but for the diff that is -0.001 itself.
C25_ButAtTheNegativeThousandth ==
    (Compared /\ Diff # 0 - Thousandth) =>
        /\ result.val.comparison = ByDistance
        /\ Diff < 0 => result.val.comparison # "Greater"

(***************************************************************************)
(* C29: check without a best known solution                                *)
(***************************************************************************)
\* The server has checked a feasible solution of an instance it holds.
FeasibleChecked ==
    /\ pc = "done"
    /\ db # NotRead
    /\ sol.instance_name \in DOMAIN db.instances
    /\ verify(db.instances[sol.instance_name], sol).tag = "Ok"

\* C29: the check of a feasible solution of an instance of the instance table
\* succeeds also when no best known solution is recorded for the instance:
\* the result carries the verification with bks = None and comparison Less.
C29_NoBksIsNotAnError ==
    (FeasibleChecked /\ sol.instance_name \notin DOMAIN db.bks) =>
        /\ result.tag = "Ok"
        /\ result.val.bks = None
        /\ result.val.comparison = "Less"
        /\ result.val.verification.routes = Len(sol.routes)

\* With a best known solution recorded the check succeeds, and compares
\* with the latest one.
C29_ButWithABksRecorded ==
    (FeasibleChecked /\ sol.instance_name \in DOMAIN db.bks) =>
        /\ result.tag = "Ok"
        /\ result.val.bks = last(db.bks[sol.instance_name])

(***************************************************************************)
(* C30: the two loaders of best known solutions                            *)
(***************************************************************************)
\* A loader has read the file.
BksRead == pc = "done" /\ log # <<>> /\ log[1].check \in {"main.rs", "data.rs"}

\* What a loader is to take from the file: the solution in it when it holds
\* one, what its name says when it is empty.
ToBeTaken ==
    IF metadata_len(file) > 0 THEN calculate(file, db.instances)
    ELSE extract_from_file_name(file)

\* C30: the two loaders agree on every file: for a file that is not empty
\* both take the name, the routes and the distance from parsing and verifying
\* the solution in it, for an empty file both take them from the file name.
C30_TheLoadersAgree ==
    BksRead =>
        /\ result = ToBeTaken
        /\ main_read_bks(file, db.instances) = create_bks(file, db.instances)

\* The loader of main.rs does so.
C30_AsMainDoes ==
    (BksRead /\ log[1].check = "main.rs") => result = ToBeTaken
====
